---- MODULE Spec2Model ----
(***************************************************************************)
(* Model of the auth service's session store (package store): the         *)
(* sessions table, CreateSession, RotateRefresh, RevokeSessionByRefresh   *)
(* and RevokeAll, executed by concurrent callers against one PostgreSQL   *)
(* database at the default isolation level (READ COMMITTED).              *)
(*                                                                         *)
(* RotateRefresh is a multi-statement transaction: its writes stay        *)
(* private to the transaction until the commit, and SELECT ... FOR UPDATE *)
(* holds a row lock from the select to the end of the transaction.  It is *)
(* taken in two steps, the statements up to the UPDATE of the locked row  *)
(* and the statements from the INSERT to the commit: the first step ends  *)
(* holding the lock, which is where other callers can observe and wait    *)
(* for the transaction; the uncommitted INSERT is only ever observed by   *)
(* an insert of the same digest, which waits for the commit and then      *)
(* fails as it does when it runs after it.  The single-statement          *)
(* operations take their snapshot when the statement starts and apply     *)
(* their writes once no row they matched is locked by a transaction,      *)
(* re-checking the WHERE clause on the then-committed version of each row.*)
(***************************************************************************)
EXTENDS Integers, Sequences, FiniteSets, TLC

\* ---------------------------------------------------------------- bounds
NumProcs == 2       \* concurrent callers
NumSecrets == 3     \* distinct refresh secrets callers can present
NumUsers == 2       \* rows of the users table
MaxSessions == 3    \* rows the sessions table can hold
MaxTime == 2        \* instant at which the sessions expire
NumSalts == 3       \* distinct salts rand.Read can return

Procs == 1..NumProcs
\* refresh secrets: values apart from every id, user id and instant, so that a
\* stored secret is recognisable in a row
Secrets == {100 + i : i \in 1..NumSecrets}
Users == 1..NumUsers
ExpiryTimes == {MaxTime}

\* SQL NULL / Go nil for a timestamp or an id; the empty string for rotatedFrom
NULL == 0

VARIABLES
    sessions,   \* committed rows of the sessions table; a row's id is its index
    now,        \* the clock (time.Now() and SQL now())
    procs,      \* per caller: position in its call, arguments and locals
    last,       \* the call that has just returned, with its result, until the
                \* caller has taken the result (Return)
    rotations,  \* history: the successful RotateRefresh calls
    users,      \* committed rows of the users table; a row's id is its index
    reply,      \* the response of the auth service's handler that has just
                \* returned, until the client has taken it
    sem,        \* per in-flight limiter: its max and the tokens in its channel
    requests    \* per request at a limiter: where it is and how it was answered

vars == <<sessions, now, procs, last, rotations, users, reply, sem, requests>>

\* ---------------------------------------------------------------- store helpers

\* the token stored as it is, without sha256
HashRefreshTokenPlain(tok) == <<"plain", tok>>

\* sha256 of the token: injective on the modelled secrets and never equal to one
HashRefreshToken(tok) == <<"sha256", tok>>

Ids(ss) == 1..Len(ss)

\* the lookup with its WHERE clause dropped: every row matches
RowsByHashAny(ss, h) == Ids(ss)

\* WHERE refresh_token_hash = $1 : the set of matching row ids
RowsByHash(ss, h) == {i \in Ids(ss) : ss[i].refresh_token_hash = h}

\* the table without its unique index: no insert is refused for its digest
UniqueViolationNever(ss, h) == FALSE

\* UNIQUE (refresh_token_hash): an insert of digest h is rejected
UniqueViolation(ss, h) == RowsByHash(ss, h) # {}

\* user_id REFERENCES users(id): the users table holds the users 1..NumUsers
UserFKViolation(uid) == uid \notin Users

\* rotated_from REFERENCES sessions(id)
RotatedFromFKViolation(ss, rf) == rf # NULL /\ rf \notin Ids(ss)

\* INSERT INTO sessions (...) VALUES (...): revoked_at defaults to NULL
InsertSession(ss, uid, h, expiresAt, rotatedFrom) ==
    Append(ss, [user_id |-> uid, refresh_token_hash |-> h, expires_at |-> expiresAt,
                revoked_at |-> NULL, rotated_from |-> rotatedFrom])

\* the UPDATE without AND revoked_at IS NULL: it stamps every row it is given
RevokeAlways(ss, ids, t) ==
    [i \in Ids(ss) |-> IF i \in ids THEN [ss[i] EXCEPT !.revoked_at = t] ELSE ss[i]]

\* UPDATE sessions SET revoked_at = t WHERE id IN ids AND revoked_at IS NULL
RevokeWhereNull(ss, ids, t) ==
    [i \in Ids(ss) |->
        IF i \in ids /\ ss[i].revoked_at = NULL
        THEN [ss[i] EXCEPT !.revoked_at = t] ELSE ss[i]]

\* the revoked check left out
IsRevokedNever(revokedAt) == FALSE

\* revokedAt != nil
IsRevoked(revokedAt) == revokedAt # NULL

\* the expired check with now.After(expiresAt) in place of !expiresAt.After(now):
\* a session expiring exactly now passes
IsExpiredStrict(expiresAt, t) == t > expiresAt

\* !expiresAt.After(now)
IsExpired(expiresAt, t) == ~(expiresAt > t)

\* the caller record while no call is in progress
Idle == [pc |-> "idle", op |-> "none", tok |-> NULL, new |-> NULL, exp |-> NULL,
         sid |-> NULL, uid |-> NULL, tnow |-> NULL, cand |-> {}, waited |-> FALSE]

\* no result is waiting to be taken
NoCall ==
    [op |-> "none", tok |-> NULL, uid |-> NULL, res |-> "none", waited |-> FALSE,
     cause |-> "none"]

\* call pr returns r: the operation, the secret (RevokeAll: the user) it was
\* about, the result, and whether the call had to wait for a row lock
Returned(pr, r) ==
    [op |-> pr.op, tok |-> pr.tok, res |-> r, waited |-> pr.waited,
     uid |-> IF pr.op \in {"revokeAll", "validate"} \/ (pr.op = "rotate" /\ r = "ok")
             THEN pr.uid ELSE NULL,
     cause |-> "none"]

\* the SELECT without FOR UPDATE: no caller waits for another
RowLockedNever(id, p) == FALSE

\* FOR UPDATE: row id is locked by a transaction other than p's, from the
\* SELECT to the end of the transaction
RowLocked(id, p) ==
    \E q \in Procs \ {p} : procs[q].pc = "insert" /\ procs[q].sid = id

\* the new row given the old row's expiry in place of the caller's
PendingAppliedKeepsExpiry(ss, pr, rev, ins) ==
    LET revoked == IF rev THEN RevokeWhereNull(ss, {pr.sid}, pr.tnow) ELSE ss
    IN IF ins
       THEN InsertSession(revoked, pr.uid, HashRefreshToken(pr.new),
                          ss[pr.sid].expires_at, pr.sid)
       ELSE revoked

\* the writes of transaction pr (its revoke if rev, its insert if ins) applied
\* to the committed rows
PendingApplied(ss, pr, rev, ins) ==
    LET revoked == IF rev THEN RevokeWhereNull(ss, {pr.sid}, pr.tnow) ELSE ss
    IN IF ins
       THEN InsertSession(revoked, pr.uid, HashRefreshToken(pr.new), pr.exp, pr.sid)
       ELSE revoked

\* the commit of the INSERT alone, the old row left unrevoked
CommitInsertOnly(ss, pr) == PendingApplied(ss, pr, FALSE, TRUE)

\* tx.Commit: the revoke and the insert become visible together
Commit(ss, pr) == PendingApplied(ss, pr, TRUE, TRUE)

\* a failure path that commits what the transaction has written so far
RollbackKeepsWrites(ss, pr, rev, ins) == PendingApplied(ss, pr, rev, ins)

\* the UPDATE that revoked the old row outlives the failed call
RollbackKeepsRevoke(ss, pr, rev, ins) == PendingApplied(ss, pr, rev, FALSE)

\* deferred tx.Rollback: nothing the transaction wrote (rev, ins) becomes visible
Rollback(ss, pr, rev, ins) == ss

\* ---------------------------------------------------------------- accounts

\* argon2Version in package password
argon2Version == 19

\* the shortest password Register accepts
MinPasswordLen == 12

\* the emails of the requests: one with surrounding blanks and capitals, two in
\* normal form and one that is no address
RequestEmails == {" A@B.com ", "a@b.com", "c@d.com", "nope"}

\* strings.TrimSpace(strings.ToLower(email)) on the request emails
NormalizeEmail(e) == IF e = " A@B.com " THEN "a@b.com" ELSE e

\* emailRe.MatchString(email): ^[^@\s]+@[^@\s]+\.[^@\s]+$ on the request emails
EmailMatches(e) == e \in {"a@b.com", "c@d.com"}

\* a password of seven letters outside ASCII, seven times U+00E9, written here
\* with the letter's two UTF-8 bytes spelled out in ASCII
SevenAccents == "c3a9c3a9c3a9c3a9c3a9c3a9c3a9"

\* the passwords of the requests
Passwords == {"", "short", "twelvecharpw!", "otherlongpass", SevenAccents}

\* the characters (code points) of a password
Chars(pw) == IF pw = SevenAccents THEN 7 ELSE Len(pw)

\* len(pw): the bytes of the password's UTF-8 encoding
Bytes(pw) == IF pw = SevenAccents THEN 14 ELSE Len(pw)

Salts == 1..NumSalts

\* the argon2id parameters of package password
memoryKiB == 65536
timeCost == 3
threads == 2
keyLen == 32
saltLen == 16

\* the shortest salt and the shortest hash parse accepts, in bytes
MinSaltLen == 8
MinHashLen == 16

\* argon2.IDKey(plaintext, salt, time, memory, threads, keyLen): len bytes
\* determined by all its arguments; different arguments give different keys
IDKey(plaintext, salt, cost, len) ==
    [of |-> <<plaintext, salt, cost>>, len |-> len]

\* the PHC string $argon2id$v=19$m=...,t=...,p=...$<salt>$<hash> of a salt of
\* saltLen bytes
Encode(salt, key) ==
    [alg |-> "argon2id", v |-> argon2Version, m |-> memoryKiB, t |-> timeCost,
     p |-> threads, salt |-> salt, saltLen |-> saltLen, key |-> key]

\* password.Hash with the salt rand.Read returned
Hash(plaintext, salt) ==
    IF plaintext = ""
    THEN [err |-> "empty password",
          encoded |-> Encode(0, IDKey("", 0, <<0, 0, 0>>, 0))]
    ELSE [err |-> "nil",
          encoded |-> Encode(salt, IDKey(plaintext, salt,
                                         <<timeCost, memoryKiB, threads>>, keyLen))]

\* a stored password_hash that is no argon2id PHC string
MalformedHash ==
    [alg |-> "plain", v |-> 0, m |-> 0, t |-> 0, p |-> 0, salt |-> 0, saltLen |-> 0,
     key |-> IDKey("", 0, <<0, 0, 0>>, 0)]

\* stored strings parse rejects: no PHC string, another version, a salt of 4
\* bytes, a hash of 8 bytes
RejectedHashes ==
    LET good == Hash("twelvecharpw!", 1).encoded IN
    {MalformedHash,
     [good EXCEPT !.v = 16],
     [good EXCEPT !.saltLen = 4],
     [good EXCEPT !.key = IDKey("twelvecharpw!", 1, <<timeCost, memoryKiB, threads>>, 8)]}

\* a stored string made with another time cost and a key of 16 bytes
TunedHash ==
    [Hash("twelvecharpw!", 1).encoded EXCEPT
         !.t = 2, !.key = IDKey("twelvecharpw!", 1, <<2, memoryKiB, threads>>, 16)]

\* password.parse succeeds: the algorithm field, the version, the lengths of
\* salt and hash
ParseOk(encoded) ==
    /\ encoded.alg = "argon2id"
    /\ encoded.v = argon2Version
    /\ ~(encoded.saltLen < MinSaltLen)
    /\ ~(encoded.key.len < MinHashLen)

VerifyParsedOnly(plaintext, encoded) ==
    IF ~ParseOk(encoded) THEN "ErrInvalidHash" ELSE "nil"

\* password.Verify: the key is computed again with the parameters, the salt
\* and the hash length of the stored string
Verify(plaintext, encoded) ==
    IF ~ParseOk(encoded) THEN "ErrInvalidHash"
    ELSE IF IDKey(plaintext, encoded.salt, <<encoded.t, encoded.m, encoded.p>>,
                  encoded.key.len) # encoded.key
    THEN "ErrMismatch"
    ELSE "nil"

\* SELECT ... FROM users WHERE email = $1
UsersByEmail(us, email) == {i \in 1..Len(us) : us[i].email = email}

EmailTakenNever(us, email) == FALSE

\* the INSERT violates users.email UNIQUE
EmailTaken(us, email) == UsersByEmail(us, email) # {}

\* INSERT INTO users (email, password_hash) VALUES ($1, $2)
InsertUser(us, email, passwordHash) ==
    Append(us, [email |-> email, password_hash |-> passwordHash])

\* the users table the session store runs against: NumUsers registered users
StoreUsers ==
    [i \in 1..NumUsers |->
        [email |-> "user" \o ToString(i) \o "@example.com",
         password_hash |-> Hash("twelvecharpw!", 1).encoded]]

\* the limiters a process sets up: HTTP requests, unary RPCs, streaming RPCs
Limiters == {"http", "unary", "stream"}

NumRequests == 3

Requests == 1..NumRequests

\* a limiter built with max <= 0: no channel, every request goes to the handler
Unlimited == [cap |-> 0, len |-> 0]

NoLimits == [l \in Limiters |-> Unlimited]

\* a request that has not arrived
NoRequest == [pc |-> "idle", at |-> "none", held |-> FALSE, answer |-> "none"]

NoRequests == [r \in Requests |-> NoRequest]

\* no response is waiting to be taken
NoReply ==
    [op |-> "none", code |-> "none", msg |-> "", cause |-> "none", user_id |-> NULL,
     email |-> "", access |-> <<>>, refresh |-> <<>>, presented |-> <<>>, hashed |-> FALSE]

Init ==
    /\ sessions = <<>>
    /\ now = 1
    /\ procs = [p \in Procs |-> Idle]
    /\ last = NoCall
    /\ rotations = {}
    /\ users = StoreUsers
    /\ reply = NoReply
    /\ sem = NoLimits
    /\ requests = NoRequests

\* the caller takes the result of the call that has just returned
Return ==
    /\ last # NoCall
    /\ UNCHANGED <<users, reply, sem, requests>>
    /\ last' = NoCall
    /\ UNCHANGED <<sessions, now, procs, rotations>>

\* time passes, up to the instant limit
Tick(limit) ==
    /\ last = NoCall
    /\ UNCHANGED <<users, reply, sem, requests>>
    /\ now < limit
    /\ now' = now + 1
    /\ last' = NoCall
    /\ UNCHANGED <<sessions, procs, rotations>>

\* a driver-level failure of a statement (lost connection,
\* cancelled context, ...): it can happen at any statement
Fault == TRUE

RotateFailKeepsLock(p, pr, r, rev, ins) ==
    /\ last' = Returned(pr, r)
    /\ sessions' = Rollback(sessions, pr, rev, ins)
    /\ UNCHANGED <<procs, rotations>>

\* call p's RotateRefresh returns r after its deferred rollback
RotateFail(p, pr, r, rev, ins) ==
    /\ procs' = [procs EXCEPT ![p] = Idle]
    /\ last' = Returned(pr, r)
    /\ sessions' = Rollback(sessions, pr, rev, ins)
    /\ UNCHANGED rotations

\* Store.CreateSession: one INSERT, committed on its own
CreateSession(p, userID, refreshToken, expiresAt, rotatedFrom) ==
    LET hash == HashRefreshToken(refreshToken)
        call == [Idle EXCEPT !.op = "create", !.tok = refreshToken]
    IN
    /\ last = NoCall
    /\ UNCHANGED <<users, reply, sem, requests>>
    /\ procs[p].pc = "idle"
    /\ UNCHANGED <<now, rotations>>
    /\ \/ /\ \/ UserFKViolation(userID)
             \/ UniqueViolation(sessions, hash)
             \/ RotatedFromFKViolation(sessions, rotatedFrom)
          /\ procs' = [procs EXCEPT ![p] = Idle]
          /\ last' = Returned(call, "ErrConstraint")
          /\ UNCHANGED sessions
       \/ /\ ~UserFKViolation(userID)
          /\ ~UniqueViolation(sessions, hash)
          /\ ~RotatedFromFKViolation(sessions, rotatedFrom)
          /\ Len(sessions) < MaxSessions
          /\ sessions' = InsertSession(sessions, userID, hash, expiresAt, rotatedFrom)
          /\ procs' = [procs EXCEPT ![p] = Idle]
          /\ last' = Returned(call, "ok")
       \/ /\ Fault
          /\ procs' = [procs EXCEPT ![p] = Idle]
          /\ last' = Returned(call, "ErrConn")
          /\ UNCHANGED sessions

\* the two checks in the other order: expired first, revoked second
CheckResultExpiryFirst(revokedAt, expiresAt, t) ==
    IF IsExpired(expiresAt, t) THEN "ErrRefreshExpired"
    ELSE IF IsRevoked(revokedAt) THEN "ErrRefreshRevoked"
    ELSE "pass"

\* the checks of RotateRefresh on the row it has read, in the order of the code:
\* revokedAt != nil, then !expiresAt.After(now)
CheckResult(revokedAt, expiresAt, t) ==
    IF IsRevoked(revokedAt) THEN "ErrRefreshRevoked"
    ELSE IF IsExpired(expiresAt, t) THEN "ErrRefreshExpired"
    ELSE "pass"

\* Store.RotateRefresh from the moment its SELECT ... FOR UPDATE returns row i
\* locked: now := time.Now(), the revoked and the expired check, and
\* UPDATE sessions SET revoked_at = $2 WHERE id = $1 AND revoked_at IS NULL
RotateLocked(p, pr, i) ==
    LET check == CheckResult(sessions[i].revoked_at, sessions[i].expires_at, now) IN
    \/ /\ check # "pass"
       /\ RotateFail(p, pr, check, FALSE, FALSE)
    \/ /\ check = "pass"
       /\ \/ /\ Fault
             /\ RotateFail(p, pr, "ErrConn", FALSE, FALSE)
          \/ /\ procs' = [procs EXCEPT ![p] =
                    [pr EXCEPT !.pc = "insert", !.sid = i,
                               !.uid = sessions[i].user_id, !.tnow = now]]
             /\ last' = NoCall
             /\ UNCHANGED <<sessions, rotations>>

\* Store.RotateRefresh, s.DB.BeginTx and the SELECT ... FOR UPDATE: the call
\* goes on at once when the row is free and waits when it is locked
RotateBegin(p, oldRefreshToken, newRefreshToken, newExpiresAt) ==
    LET call == [Idle EXCEPT !.op = "rotate", !.tok = oldRefreshToken,
                             !.new = newRefreshToken, !.exp = newExpiresAt]
        rows == RowsByHash(sessions, HashRefreshToken(oldRefreshToken))
    IN
    /\ last = NoCall
    /\ UNCHANGED <<users, reply, sem, requests>>
    /\ procs[p].pc = "idle"
    /\ UNCHANGED now
    /\ \/ /\ Fault
          /\ RotateFail(p, call, "ErrConn", FALSE, FALSE)
       \/ /\ rows = {}
          /\ RotateFail(p, call, "ErrRefreshInvalid", FALSE, FALSE)
       \/ \E i \in rows :
             \/ /\ RowLocked(i, p)
                /\ procs' = [procs EXCEPT ![p] =
                       [call EXCEPT !.pc = "select", !.sid = i, !.waited = TRUE]]
                /\ last' = NoCall
                /\ UNCHANGED <<sessions, rotations>>
             \/ /\ ~RowLocked(i, p)
                /\ RotateLocked(p, call, i)

\* Store.RotateRefresh, the SELECT ... FOR UPDATE that had to wait gets the lock
\* and returns the row as it is committed then
RotateSelect(p) ==
    LET pr == procs[p] IN
    /\ last = NoCall
    /\ UNCHANGED <<users, reply, sem, requests>>
    /\ pr.pc = "select"
    /\ UNCHANGED now
    /\ \/ /\ Fault
          /\ RotateFail(p, pr, "ErrConn", FALSE, FALSE)
       \/ /\ ~RowLocked(pr.sid, p)
          /\ RotateLocked(p, pr, pr.sid)

\* Store.RotateRefresh, INSERT INTO sessions (...) with rotated_from =
\* oldSessionID, getUserByIDTx (any failure is reported as ErrRefreshInvalid),
\* tx.Commit and the return
RotateFinish(p) ==
    LET pr == procs[p]
        newHash == HashRefreshToken(pr.new)
    IN
    /\ last = NoCall
    /\ UNCHANGED <<users, reply, sem, requests>>
    /\ pr.pc = "insert"
    /\ UNCHANGED now
    /\ \/ /\ Fault
          /\ RotateFail(p, pr, "ErrConn", TRUE, FALSE)
       \/ /\ UniqueViolation(sessions, newHash)
          /\ RotateFail(p, pr, "ErrConstraint", TRUE, FALSE)
       \/ /\ ~UniqueViolation(sessions, newHash)
          /\ Len(sessions) < MaxSessions
          /\ \/ /\ Fault
                /\ RotateFail(p, pr, "ErrRefreshInvalid", TRUE, TRUE)
             \/ /\ Fault
                /\ RotateFail(p, pr, "ErrConn", TRUE, TRUE)
             \/ /\ sessions' = Commit(sessions, pr)
                /\ procs' = [procs EXCEPT ![p] = Idle]
                /\ last' = Returned(pr, "ok")
                /\ rotations' = rotations \cup
                       {[tok |-> pr.tok, from |-> pr.sid, id |-> Len(sessions')]}

RevokeByRefreshRowsAny(ss, h) == RowsByHash(ss, h)

\* rows matched by UPDATE ... WHERE refresh_token_hash = $1 AND revoked_at IS NULL
RevokeByRefreshRows(ss, h) == {i \in RowsByHash(ss, h) : ss[i].revoked_at = NULL}

RevokeAllRowsAnyUser(ss, userID) == {i \in Ids(ss) : ss[i].revoked_at = NULL}

\* rows matched by UPDATE ... WHERE user_id = $1 AND revoked_at IS NULL
RevokeAllRows(ss, userID) ==
    {i \in Ids(ss) : ss[i].user_id = userID /\ ss[i].revoked_at = NULL}

\* an UPDATE waits while a transaction holds the lock of a row it matched
AnyLocked(ids, p) == \E i \in ids : RowLocked(i, p)

\* ct.RowsAffected() not looked at
RevokeResultIgnored(affected) == "ok"

\* ct.RowsAffected() == 0 is reported as ErrRefreshInvalid
RevokeResult(affected) == IF affected = {} THEN "ErrRefreshInvalid" ELSE "ok"

\* Store.RevokeSessionByRefresh: the UPDATE starts; it completes at once unless
\* the row it matched is locked
RevokeSessionByRefresh(p, refreshToken) ==
    LET hash == HashRefreshToken(refreshToken)
        call == [Idle EXCEPT !.op = "revoke", !.tok = refreshToken]
        cand == RevokeByRefreshRows(sessions, hash)
    IN
    /\ last = NoCall
    /\ UNCHANGED <<users, reply, sem, requests>>
    /\ procs[p].pc = "idle"
    /\ UNCHANGED <<now, rotations>>
    /\ \/ /\ ~AnyLocked(cand, p)
          /\ sessions' = RevokeWhereNull(sessions, cand, now)
          /\ procs' = [procs EXCEPT ![p] = Idle]
          /\ last' = Returned(call, RevokeResult(cand))
       \/ /\ Fault
          /\ procs' = [procs EXCEPT ![p] = Idle]
          /\ last' = Returned(call, "ErrConn")
          /\ UNCHANGED sessions
       \/ /\ AnyLocked(cand, p)
          /\ procs' = [procs EXCEPT ![p] =
                 [call EXCEPT !.pc = "revoke", !.cand = cand, !.tnow = now,
                              !.waited = TRUE]]
          /\ last' = NoCall
          /\ UNCHANGED sessions

\* Store.RevokeSessionByRefresh: the lock is released; the UPDATE re-checks
\* revoked_at IS NULL on the committed row and completes
RevokeSessionByRefreshResume(p) ==
    LET pr == procs[p]
        affected == {i \in pr.cand : sessions[i].revoked_at = NULL}
    IN
    /\ last = NoCall
    /\ UNCHANGED <<users, reply, sem, requests>>
    /\ pr.pc = "revoke"
    /\ ~AnyLocked(pr.cand, p)
    /\ procs' = [procs EXCEPT ![p] = Idle]
    /\ \/ /\ sessions' = RevokeWhereNull(sessions, pr.cand, pr.tnow)
          /\ last' = Returned(pr, RevokeResult(affected))
       \/ /\ Fault
          /\ last' = Returned(pr, "ErrConn")
          /\ UNCHANGED sessions
    /\ UNCHANGED <<now, rotations>>

\* Store.RevokeAll: the UPDATE starts; it completes at once unless a row it
\* matched is locked
RevokeAll(p, userID) ==
    LET call == [Idle EXCEPT !.op = "revokeAll", !.uid = userID]
        cand == RevokeAllRows(sessions, userID)
    IN
    /\ last = NoCall
    /\ UNCHANGED <<users, reply, sem, requests>>
    /\ procs[p].pc = "idle"
    /\ UNCHANGED <<now, rotations>>
    /\ \/ /\ ~AnyLocked(cand, p)
          /\ sessions' = RevokeWhereNull(sessions, cand, now)
          /\ procs' = [procs EXCEPT ![p] = Idle]
          /\ last' = Returned(call, "ok")
       \/ /\ Fault
          /\ procs' = [procs EXCEPT ![p] = Idle]
          /\ last' = Returned(call, "ErrConn")
          /\ UNCHANGED sessions
       \/ /\ AnyLocked(cand, p)
          /\ procs' = [procs EXCEPT ![p] =
                 [call EXCEPT !.pc = "revokeAll", !.cand = cand, !.tnow = now,
                              !.waited = TRUE]]
          /\ last' = NoCall
          /\ UNCHANGED sessions

\* Store.RevokeAll: the locks are released; the UPDATE re-checks revoked_at IS
\* NULL on the committed version of each row of its snapshot and completes
RevokeAllResume(p) ==
    LET pr == procs[p] IN
    /\ last = NoCall
    /\ UNCHANGED <<users, reply, sem, requests>>
    /\ pr.pc = "revokeAll"
    /\ ~AnyLocked(pr.cand, p)
    /\ procs' = [procs EXCEPT ![p] = Idle]
    /\ \/ /\ sessions' = RevokeWhereNull(sessions, pr.cand, pr.tnow)
          /\ last' = Returned(pr, "ok")
       \/ /\ Fault
          /\ last' = Returned(pr, "ErrConn")
          /\ UNCHANGED sessions
    /\ UNCHANGED <<now, rotations>>

\* the user ids callers pass: the registered users and one that is not
\* the SELECT with expires_at >= now(): a session expiring exactly now is found
ValidateRowsToInstant(ss, h, t) ==
    {i \in RowsByHash(ss, h) : ss[i].revoked_at = NULL /\ ss[i].expires_at >= t}

\* the rows ValidateRefresh selects: WHERE refresh_token_hash = $1
\* AND revoked_at IS NULL AND expires_at > now()
ValidateRows(ss, h, t) ==
    {i \in RowsByHash(ss, h) : ss[i].revoked_at = NULL /\ ss[i].expires_at > t}

\* GetUserByID: sql.ErrNoRows becomes ErrNotFound
GetUserByID(us, id) == IF id \in 1..Len(us) THEN "nil" ELSE "ErrNotFound"

ValidateFetchErrorPassed(err) == err

\* what ValidateRefresh returns when the owner cannot be fetched
ValidateFetchError(err) == "ErrRefreshInvalid"

ValidateRevokes(ss, ids, t) == RevokeWhereNull(ss, ids, t)

\* the sessions table after ValidateRefresh: both its statements are SELECTs
ValidateWrites(ss, ids, t) == ss

\* ValidateRefresh: the session SELECT and GetUserByID. The result depends on
\* the sessions table at the first statement only and the users table is not
\* written by the store's session operations, so the two statements are one step.
ValidateRefresh(p, refreshToken) ==
    LET call == [Idle EXCEPT !.op = "validate", !.tok = refreshToken]
        rows == ValidateRows(sessions, HashRefreshToken(refreshToken), now)
    IN
    /\ last = NoCall
    /\ UNCHANGED <<users, reply, sem, requests>>
    /\ procs[p].pc = "idle"
    /\ UNCHANGED <<now, procs, rotations>>
    /\ sessions' = ValidateWrites(sessions, rows, now)
    /\ \/ /\ rows = {}
          /\ last' = Returned(call, "ErrRefreshInvalid")
       \/ /\ Fault
          /\ last' = [Returned(call, "ErrConn") EXCEPT !.cause = "sessionQuery"]
       \/ \E i \in rows :
            LET found == [call EXCEPT !.uid = sessions[i].user_id, !.sid = i] IN
            \/ /\ GetUserByID(users, sessions[i].user_id) = "nil"
               /\ last' = Returned(found, "ok")
            \/ /\ GetUserByID(users, sessions[i].user_id) # "nil"
               /\ last' = [Returned(found, ValidateFetchError("ErrNotFound"))
                               EXCEPT !.cause = "ownerFetch"]
            \/ /\ Fault
               /\ last' = [Returned(found, ValidateFetchError("ErrConn"))
                               EXCEPT !.cause = "ownerFetch"]

\* ---------------------------------------------------------------- auth server

\* the lifetimes New gives the tokens, in seconds: the access token's is the
\* shorter one
accessTTL == 1
refreshTTL == 2

\* the clock counts in steps shorter than a second
TicksPerSecond == 2

\* a time.Duration of ttl seconds, in clock steps
Duration(ttl) == ttl * TicksPerSecond

\* jwt.NewNumericDate: the time truncated to whole seconds
NewNumericDate(t) == t - (t % TicksPerSecond)

\* the issuer the jwt.Service is built with
Issuer == "auth"

\* the jwt.Service of the server: its key and its issuer
Service == [secret |-> "key", issuer |-> Issuer]

\* a compact JWS: the header's algorithm, the key of the signature, the claims
SignedString(alg, secret, claims) == <<"jwt", alg, secret, claims>>

NewTokenNoEmail(svc, userID, email, t, ttl, id) ==
    SignedString("HS256", svc.secret,
                 [iss |-> svc.issuer, sub |-> userID, email |-> "",
                  iat |-> NewNumericDate(t),
                  exp |-> NewNumericDate(t + Duration(ttl)), jti |-> id])

\* the token NewAccessToken and NewRefreshToken sign: HS256 with the service's
\* key over issuer, subject, email, issue time, expiry and ID
NewToken(svc, userID, email, t, ttl, id) ==
    SignedString("HS256", svc.secret,
                 [iss |-> svc.issuer, sub |-> userID, email |-> email,
                  iat |-> NewNumericDate(t),
                  exp |-> NewNumericDate(t + Duration(ttl)), jti |-> id])

\* jwt.Service.NewAccessToken: the token
NewAccessToken(userID, email, t, ttl) == NewToken(Service, userID, email, t, ttl, "")

\* jwt.Service.NewAccessToken: the expiry it returns beside the token
NewAccessTokenExp(t, ttl) == t + Duration(ttl)

\* jwt.Service.NewRefreshToken: a signed token as well, with the ID "refresh"
NewRefreshToken(userID, email, t, ttl) ==
    NewToken(Service, userID, email, t, ttl, "refresh")

NoClaims == [iss |-> "", sub |-> NULL, email |-> "", iat |-> 0, exp |-> 0, jti |-> ""]

ErrInvalidToken == [err |-> "ErrInvalidToken", claims |-> NoClaims]

ParseAnyIssuer(svc, token, t) ==
    IF token = <<>> \/ token[1] # "jwt" THEN ErrInvalidToken
    ELSE IF token[2] # "HS256" THEN ErrInvalidToken
    ELSE IF token[3] # svc.secret THEN ErrInvalidToken
    ELSE IF ~(t < token[4].exp) THEN ErrInvalidToken
    ELSE [err |-> "nil", claims |-> token[4]]

\* jwt.Service.Parse at time t: jwt.ParseWithClaims (the text is a JWS, its
\* algorithm is HS256, the signature is by the service's key, the time is
\* before exp), then the issuer
Parse(svc, token, t) ==
    IF token = <<>> \/ token[1] # "jwt" THEN ErrInvalidToken
    ELSE IF token[2] # "HS256" THEN ErrInvalidToken
    ELSE IF token[3] # svc.secret THEN ErrInvalidToken
    ELSE IF ~(t < token[4].exp) THEN ErrInvalidToken
    ELSE IF token[4].iss # svc.issuer THEN ErrInvalidToken
    ELSE [err |-> "nil", claims |-> token[4]]

\* a caller of package password hashes a password
HashPassword(plaintext) ==
    /\ last = NoCall
    /\ reply = NoReply
    /\ UNCHANGED <<sessions, now, procs, last, rotations, users, sem, requests>>
    /\ \/ /\ Fault
          /\ plaintext # ""
          /\ reply' = [op |-> "hash", plaintext |-> plaintext,
                       res |-> [err |-> "rand salt", encoded |-> MalformedHash]]
       \/ \E salt \in Salts :
            reply' = [op |-> "hash", plaintext |-> plaintext,
                      res |-> Hash(plaintext, salt)]

\* the caller verifies a password against the hash it was just given
VerifyHashed(plaintext) ==
    /\ last = NoCall
    /\ reply.op = "hash"
    /\ reply.res.err = "nil"
    /\ reply' = [op |-> "verify", plaintext |-> plaintext, encoded |-> reply.res.encoded,
                 hashed |-> {reply.plaintext},
                 err |-> Verify(plaintext, reply.res.encoded)]
    /\ UNCHANGED <<sessions, now, procs, last, rotations, users, sem, requests>>

\* a caller verifies a password against a stored string
VerifyStored(plaintext, encoded) ==
    /\ last = NoCall
    /\ reply = NoReply
    /\ reply' = [op |-> "verify", plaintext |-> plaintext, encoded |-> encoded,
                 hashed |-> {}, err |-> Verify(plaintext, encoded)]
    /\ UNCHANGED <<sessions, now, procs, last, rotations, users, sem, requests>>

\* services with another key and with another issuer
OtherKey == [secret |-> "other key", issuer |-> Issuer]
OtherIssuer == [secret |-> "key", issuer |-> "other issuer"]

\* the lifetimes a caller of NewAccessToken asks for, in seconds
TTLs == {accessTTL, refreshTTL}

\* the texts handed to Parse: tokens of the three services, a token without
\* signature (alg none), one signed HS512 with the service's key, and garbage
ParseInputs ==
    {NewToken(svc, u, "a@b.com", t, ttl, "") :
         svc \in {Service, OtherKey, OtherIssuer}, u \in {1}, t \in {1},
         ttl \in TTLs}
    \cup {SignedString(alg, "key", NewToken(Service, 1, "a@b.com", 1, refreshTTL, "")[4]) :
              alg \in {"none", "HS512"}}
    \cup {<<"not-a-jwt">>}

\* a caller of the jwt.Service mints an access token
MintAccess(userID, email, ttl) ==
    /\ last = NoCall
    /\ reply = NoReply
    /\ reply' = [op |-> "mint", token |-> NewAccessToken(userID, email, now, ttl),
                 exp |-> NewAccessTokenExp(now, ttl), at |-> now,
                 sub |-> userID, email |-> email, ttl |-> ttl]
    /\ UNCHANGED <<sessions, now, procs, last, rotations, users, sem, requests>>

\* the caller hands the token it was minted back to Parse
ParseMinted ==
    /\ last = NoCall
    /\ reply.op = "mint"
    /\ reply' = [op |-> "parse", token |-> reply.token, at |-> now,
                 res |-> Parse(Service, reply.token, now), minted |-> {reply}]
    /\ UNCHANGED <<sessions, now, procs, last, rotations, users, sem, requests>>

\* a caller hands some text to Parse
ParseText(token) ==
    /\ last = NoCall
    /\ reply = NoReply
    /\ reply' = [op |-> "parse", token |-> token, at |-> now,
                 res |-> Parse(Service, token, now), minted |-> {}]
    /\ UNCHANGED <<sessions, now, procs, last, rotations, users, sem, requests>>

\* status.Error(code, msg) as the response of handler op; cause records, for
\* the log only, which branch produced it
Failed(op, code, msg, cause) ==
    [NoReply EXCEPT !.op = op, !.code = code, !.msg = msg, !.cause = cause]

\* the error of CreateUser: where it comes from and the words its text holds
UniqueViolationErr == [kind |-> "unique_violation", words |-> {"duplicate", "unique"}]
ConnErr == [kind |-> "conn", words |-> {}]

\* Register's reading of a CreateUser error: by the words of its text
CreateUserStatus(err) ==
    IF "unique" \in err.words \/ "duplicate" \in err.words
    THEN Failed("register", "AlreadyExists", "email already registered", err.kind)
    ELSE Failed("register", "Internal", "internal error", err.kind)

\* len(pw) < 12
PasswordTooShort(pw) == Bytes(pw) < MinPasswordLen

\* Server.Register. The response records, for the log only, the request it
\* answers (presented) and whether password.Hash was called (hashed).
Register(reqEmail, pw) ==
    LET email == NormalizeEmail(reqEmail)
        Answer(r, h) == [r EXCEPT !.presented = <<reqEmail, pw>>, !.hashed = h]
    IN
    /\ last = NoCall
    /\ reply = NoReply
    /\ UNCHANGED <<sessions, now, procs, last, rotations, sem, requests>>
    /\ \/ /\ ~EmailMatches(email)
          /\ reply' = Answer(Failed("register", "InvalidArgument", "invalid email",
                                    "email"), FALSE)
          /\ UNCHANGED users
       \/ /\ EmailMatches(email)
          /\ PasswordTooShort(pw)
          /\ reply' = Answer(Failed("register", "InvalidArgument",
                                    "password must be at least 12 characters",
                                    "password"), FALSE)
          /\ UNCHANGED users
       \/ /\ EmailMatches(email)
          /\ ~PasswordTooShort(pw)
          /\ \/ /\ Fault
                /\ reply' = Answer(Failed("register", "Internal", "internal error",
                                          "hash"), TRUE)
                /\ UNCHANGED users
             \/ \E salt \in Salts :
                  LET hash == Hash(pw, salt) IN
                  /\ hash.err = "nil"
                  /\ \/ /\ EmailTaken(users, email)
                        /\ reply' = Answer(CreateUserStatus(UniqueViolationErr), TRUE)
                        /\ UNCHANGED users
                     \/ /\ Fault
                        /\ reply' = Answer(CreateUserStatus(ConnErr), TRUE)
                        /\ UNCHANGED users
                     \/ /\ ~EmailTaken(users, email)
                        /\ users' = InsertUser(users, email, hash.encoded)
                        /\ reply' = Answer([NoReply EXCEPT !.op = "register",
                                                           !.code = "OK",
                                                           !.cause = "ok",
                                                           !.user_id = Len(users')],
                                               TRUE)

\* Server.Register called by several callers at once, first part: the checks
\* of the request and password.Hash, which touch no shared state. The caller
\* keeps the request, the normalised email and the hash (in cand).
RegisterBegin(p, reqEmail, pw) ==
    LET email == NormalizeEmail(reqEmail)
        Answer(r) == [r EXCEPT !.presented = <<reqEmail, pw>>]
    IN
    /\ last = NoCall
    /\ procs[p].pc = "idle"
    /\ UNCHANGED <<sessions, now, last, rotations, users, sem, requests>>
    /\ \/ /\ ~EmailMatches(email)
          /\ reply = NoReply
          /\ reply' = Answer(Failed("register", "InvalidArgument", "invalid email",
                                    "email"))
          /\ UNCHANGED procs
       \/ /\ EmailMatches(email)
          /\ PasswordTooShort(pw)
          /\ reply = NoReply
          /\ reply' = Answer(Failed("register", "InvalidArgument",
                                    "password must be at least 12 characters",
                                    "password"))
          /\ UNCHANGED procs
       \/ /\ EmailMatches(email)
          /\ ~PasswordTooShort(pw)
          /\ \/ /\ Fault
                /\ reply = NoReply
                /\ reply' = [Answer(Failed("register", "Internal", "internal error",
                                           "hash")) EXCEPT !.hashed = TRUE]
                /\ UNCHANGED procs
             \/ \E salt \in Salts :
                  /\ Hash(pw, salt).err = "nil"
                  /\ procs' = [procs EXCEPT ![p] =
                         [Idle EXCEPT !.pc = "createUser", !.op = "register",
                                      !.cand = {[req |-> <<reqEmail, pw>>,
                                                 email |-> email,
                                                 hash |-> Hash(pw, salt).encoded]}]]
                  /\ UNCHANGED reply

\* second part: the INSERT of store.CreateUser, one statement, and the answer
RegisterCreateUser(p) ==
    LET pr == CHOOSE c \in procs[p].cand : TRUE
        Answer(r) == [r EXCEPT !.presented = pr.req, !.hashed = TRUE]
    IN
    /\ last = NoCall
    /\ procs[p].pc = "createUser"
    /\ reply = NoReply
    /\ procs' = [procs EXCEPT ![p] = Idle]
    /\ UNCHANGED <<sessions, now, last, rotations, sem, requests>>
    /\ \/ /\ EmailTaken(users, pr.email)
          /\ reply' = Answer(CreateUserStatus(UniqueViolationErr))
          /\ UNCHANGED users
       \/ /\ Fault
          /\ reply' = Answer(CreateUserStatus(ConnErr))
          /\ UNCHANGED users
       \/ /\ ~EmailTaken(users, pr.email)
          /\ users' = InsertUser(users, pr.email, pr.hash)
          /\ reply' = Answer([NoReply EXCEPT !.op = "register", !.code = "OK",
                                             !.cause = "ok", !.user_id = Len(users')])

\* store.CreateUser called by another writer of the users table (a migration,
\* an import) with a password_hash it computed itself
CreateUser(email, passwordHash) ==
    /\ last = NoCall
    /\ reply = NoReply
    /\ ~EmailTaken(users, email)
    /\ users' = InsertUser(users, email, passwordHash)
    /\ UNCHANGED <<sessions, now, procs, last, rotations, reply, sem, requests>>

\* Login's answer to an error of GetUserByEmail: the same for every error
LookupStatus(err) == Failed("login", "Unauthenticated", "invalid credentials", err)

VerifyStatusTelling(err) ==
    IF err = "ErrMismatch"
    THEN Failed("login", "Unauthenticated", "wrong password", err)
    ELSE Failed("login", "Internal", "internal error", err)

\* Login's answer to an error of password.Verify
VerifyStatus(err) ==
    IF err = "ErrMismatch"
    THEN Failed("login", "Unauthenticated", "invalid credentials", err)
    ELSE Failed("login", "Internal", "internal error", err)

\* Server.Login
Login(reqEmail, pw) ==
    LET email == NormalizeEmail(reqEmail) IN
    /\ last = NoCall
    /\ reply = NoReply
    /\ UNCHANGED <<sessions, now, procs, last, rotations, users, sem, requests>>
    /\ \/ /\ ~EmailMatches(email)
          /\ reply' = Failed("login", "InvalidArgument", "invalid email", "email")
       \/ /\ EmailMatches(email)
          /\ pw = ""
          /\ reply' = Failed("login", "InvalidArgument", "password required", "password")
       \/ /\ EmailMatches(email)
          /\ pw # ""
          /\ \/ /\ UsersByEmail(users, email) = {}
                /\ reply' = LookupStatus("ErrNotFound")
             \/ /\ Fault
                /\ reply' = LookupStatus("ErrConn")
             \/ \E id \in UsersByEmail(users, email) :
                  LET u == users[id]
                      err == Verify(pw, u.password_hash)
                  IN
                  \/ /\ err # "nil"
                     /\ reply' = VerifyStatus(err)
                  \/ /\ err = "nil"
                     /\ \/ /\ Fault
                           /\ reply' = Failed("login", "Internal", "internal error", "sign")
                        \/ reply' = [NoReply EXCEPT
                               !.op = "login", !.code = "OK", !.cause = "ok",
                               !.user_id = id,
                               !.access = NewAccessToken(id, u.email, now, accessTTL),
                               !.refresh = NewRefreshToken(id, u.email, now, refreshTTL)]

\* what RotateRefresh decides for a secret when it runs alone: the error of
\* its lookup and checks, or "pass"
RotateChecks(ss, oldRefreshToken, t) ==
    LET rows == RowsByHash(ss, HashRefreshToken(oldRefreshToken)) IN
    IF rows = {} THEN "ErrRefreshInvalid"
    ELSE LET i == CHOOSE i \in rows : TRUE
         IN CheckResult(ss[i].revoked_at, ss[i].expires_at, t)

RefreshStatusTelling(err) == Failed("refresh", "Unauthenticated", err, err)

\* Refresh's answer to an error of Rotate: one outcome for its three kinds
RefreshStatus(err) ==
    IF err \in {"ErrRefreshInvalid", "ErrRefreshRevoked", "ErrRefreshExpired"}
    THEN Failed("refresh", "Unauthenticated", "invalid refresh token", err)
    ELSE Failed("refresh", "Internal", "internal error", err)

\* Refresh: Rotate the presented secret to a freshly issued one and mint an
\* access token.
Refresh(old, newSecret) ==
    LET check == RotateChecks(sessions, old, now)
        rows == RowsByHash(sessions, HashRefreshToken(old))
    IN
    /\ last = NoCall
    /\ UNCHANGED <<now, procs, last, users, sem, requests>>
    /\ \/ /\ check # "pass"
          /\ reply' = [RefreshStatus(check) EXCEPT !.presented = old]
          /\ UNCHANGED <<sessions, rotations>>
       \/ /\ Fault
          /\ reply' = [RefreshStatus("ErrConn") EXCEPT !.presented = old]
          /\ UNCHANGED <<sessions, rotations>>
       \/ /\ check = "pass"
          /\ ~UniqueViolation(sessions, HashRefreshToken(newSecret))
          /\ Len(sessions) < MaxSessions
          /\ \E i \in rows :
               LET pr == [Idle EXCEPT !.op = "rotate", !.tok = old, !.new = newSecret,
                                       !.exp = now + Duration(refreshTTL), !.sid = i,
                                       !.uid = sessions[i].user_id, !.tnow = now]
               IN
               /\ sessions' = Commit(sessions, pr)
               /\ rotations' = rotations \cup
                      {[tok |-> old, from |-> i, id |-> Len(sessions')]}
               /\ reply' = [NoReply EXCEPT
                      !.op = "refresh", !.code = "OK", !.cause = "ok",
                      !.user_id = pr.uid,
                      !.access = NewAccessToken(pr.uid, users[pr.uid].email, now,
                                                accessTTL),
                      !.refresh = <<"opaque", newSecret>>,
                      !.presented = old]

\* the caller presents the refresh token of the response it holds: the one
\* Login returned, or once more the one it presented before
RefreshHeld(newSecret) ==
    /\ \/ reply.op = "login" /\ reply.code = "OK"
       \/ reply.op = "refresh"
    /\ Refresh(IF reply.op = "login" THEN reply.refresh ELSE reply.presented, newSecret)

\* a caller that holds an opaque secret presents it
RefreshRequest(oldSecret, newSecret) ==
    /\ reply = NoReply
    /\ Refresh(oldSecret, newSecret)

\* the access_token fields of the Validate requests: empty, blanks only, a
\* token between blanks, and bare texts: access tokens of a registered user and
\* of a user id without row, issued at the start, a refresh token, a token of
\* another service and garbage
ValidateRequests ==
    LET tokens == {NewAccessToken(u, "a@b.com", 1, accessTTL) : u \in {1, NumUsers + 1}}
                  \cup {NewToken(OtherKey, 1, "a@b.com", 1, accessTTL, "")}
                  \cup {<<"not-a-jwt">>}
    IN {<<>>, <<"blank">>} \cup tokens \cup {<<"padded", tok>> : tok \in tokens}

\* strings.TrimSpace(req.GetAccessToken())
TrimSpaceToken(request) ==
    IF request = <<>> \/ request = <<"blank">> THEN <<>>
    ELSE IF request[1] = "padded" THEN request[2]
    ELSE request

ValidateResponseChecksUser(request, res) ==
    IF res.err = "nil" /\ res.claims.sub \in 1..Len(users)
    THEN [NoReply EXCEPT !.op = "validate", !.code = "OK", !.cause = "ok",
                         !.user_id = res.claims.sub, !.email = res.claims.email,
                         !.presented = request]
    ELSE [Failed("validate", "Unauthenticated", "invalid token", "ErrInvalidToken")
              EXCEPT !.presented = request]

\* Server.Validate's response to the result of Parse
ValidateResponse(request, res) ==
    IF res.err = "nil"
    THEN [NoReply EXCEPT !.op = "validate", !.code = "OK", !.cause = "ok",
                         !.user_id = res.claims.sub, !.email = res.claims.email,
                         !.presented = request]
    ELSE [Failed("validate", "Unauthenticated", "invalid token", res.err)
              EXCEPT !.presented = request]

\* Server.Validate
Validate(request) ==
    LET tok == TrimSpaceToken(request) IN
    /\ last = NoCall
    /\ reply = NoReply
    /\ UNCHANGED <<sessions, now, procs, last, rotations, users, sem, requests>>
    /\ \/ /\ tok = <<>>
          /\ reply' = [Failed("validate", "InvalidArgument", "access_token required",
                              "empty") EXCEPT !.presented = request]
       \/ /\ tok # <<>>
          /\ reply' = ValidateResponse(request, Parse(Service, tok, now))

\* the caller reads the response
TakeReply ==
    /\ last = NoCall
    /\ reply # NoReply
    /\ reply' = NoReply
    /\ UNCHANGED <<sessions, now, procs, last, rotations, users, sem, requests>>

UserArgs == 1..(NumUsers + 1)

\* the rotatedFrom values callers pass: nil and every id the table can hold
RotatedFromArgs == {NULL} \cup (1..MaxSessions)

\* Concurrent callers; sessions are created the way a login creates them, with
\* rotatedFrom nil, and replaced by RotateRefresh; the clock runs up to the
\* instant the sessions expire.
Next ==
    \/ Tick(MaxTime)
    \/ Return
    \/ \E p \in Procs :
        \/ \E u \in UserArgs, s \in Secrets, e \in ExpiryTimes :
              CreateSession(p, u, s, e, NULL)
        \/ \E s \in Secrets, n \in Secrets, e \in ExpiryTimes : RotateBegin(p, s, n, e)
        \/ RotateSelect(p)
        \/ RotateFinish(p)
        \/ \E s \in Secrets : RevokeSessionByRefresh(p, s)
        \/ RevokeSessionByRefreshResume(p)
        \/ \E u \in Users : RevokeAll(p, u)
        \/ RevokeAllResume(p)

Spec == Init /\ [][Next]_vars

\* One caller at a time, with every argument CreateSession accepts: rotatedFrom
\* is whatever the caller passes; the clock runs one instant past the expiry of
\* the sessions.
NextLineage ==
    \/ Tick(MaxTime + 1)
    \/ Return
    \/ \E u \in UserArgs, s \in Secrets, e \in ExpiryTimes, rf \in RotatedFromArgs :
          CreateSession(1, u, s, e, rf)
    \/ \E s \in Secrets, n \in Secrets, e \in ExpiryTimes : RotateBegin(1, s, n, e)
    \/ RotateFinish(1)
    \/ \E s \in Secrets : RevokeSessionByRefresh(1, s)
    \/ \E u \in Users : RevokeAll(1, u)
    \/ \E s \in Secrets : ValidateRefresh(1, s)

SpecLineage == Init /\ [][NextLineage]_vars

\* the auth server on an empty database, one request at a time
InitAuth ==
    /\ sessions = <<>>
    /\ now = 1
    /\ procs = [p \in Procs |-> Idle]
    /\ last = NoCall
    /\ rotations = {}
    /\ users = <<>>
    /\ reply = NoReply
    /\ sem = NoLimits
    /\ requests = NoRequests

NextAuth ==
    \/ Tick(MaxTime + 1)
    \/ TakeReply
    \/ \E e \in RequestEmails, pw \in Passwords : Register(e, pw)
    \/ \E e \in RequestEmails, pw \in Passwords : Login(e, pw)
    \/ \E n \in Secrets : RefreshHeld(n)
    \/ \E e \in {"a@b.com", "c@d.com"} : CreateUser(e, MalformedHash)

SpecAuth == InitAuth /\ [][NextAuth]_vars

\* Refresh in front of a session store that holds sessions: one caller creates,
\* revokes and refreshes sessions of the registered users
NextRefresh ==
    \/ Tick(MaxTime + 1)
    \/ Return
    \/ TakeReply
    \/ \E u \in Users, s \in Secrets, e \in ExpiryTimes : CreateSession(1, u, s, e, NULL)
    \/ \E s \in Secrets : RevokeSessionByRefresh(1, s)
    \/ \E s \in Secrets, n \in Secrets : RefreshRequest(s, n)

SpecRefresh == Init /\ [][NextRefresh]_vars

\* concurrent registrations on an empty database
NextRegister ==
    \/ TakeReply
    \/ \E p \in Procs :
        \/ \E e \in RequestEmails, pw \in {"short", "twelvecharpw!"} :
              RegisterBegin(p, e, pw)
        \/ RegisterCreateUser(p)

SpecRegister == InitAuth /\ [][NextRegister]_vars

\* the jwt.Service alone: tokens are minted and parsed as time passes
NextJwt ==
    \/ Tick(2 * TicksPerSecond + 1)
    \/ TakeReply
    \/ \E u \in UserArgs, e \in {"a@b.com", "c@d.com"}, ttl \in TTLs : MintAccess(u, e, ttl)
    \/ ParseMinted
    \/ \E tok \in ParseInputs : ParseText(tok)

SpecJwt == InitAuth /\ [][NextJwt]_vars

\* package password alone: passwords are hashed and verified
NextPassword ==
    \/ TakeReply
    \/ \E pw \in Passwords : HashPassword(pw)
    \/ \E pw \in Passwords : VerifyHashed(pw)
    \/ \E pw \in Passwords, h \in RejectedHashes \cup {TunedHash} : VerifyStored(pw, h)

SpecPassword == InitAuth /\ [][NextPassword]_vars

\* concurrent rotations of the sessions of one user, with the scheduling of the
\* handlers: a call that was started takes its next step, because the database
\* answers the statement or the context's deadline ends it (the step's failure
\* branch), and a result that was returned is taken
NextRotate ==
    \/ Return
    \/ \E s \in Secrets, e \in ExpiryTimes : CreateSession(1, 1, s, e, NULL)
    \/ \E p \in Procs :
        \/ \E s \in Secrets, n \in Secrets, e \in ExpiryTimes : RotateBegin(p, s, n, e)
        \/ RotateSelect(p)
        \/ RotateFinish(p)

FairRotate ==
    /\ WF_vars(Return)
    /\ \A p \in Procs : SF_vars(RotateSelect(p)) /\ SF_vars(RotateFinish(p))

SpecRotateFair == Init /\ [][NextRotate]_vars /\ FairRotate

\* ---- db.WithTx ----

\* Go's nil for a context, a pool or a function value
Nil == "nil"

Contexts == {Nil, "ctx"}

Pools == {Nil, "pool"}

\* pgx.TxOptions: the default isolation level and the two the wrappers pass
TxIsoLevels == {"", "serializable", "repeatable read"}

TxEmails == {"a@b.com", "c@d.com"}

NilFn == [kind |-> Nil, email |-> "", result |-> "nil"]

\* the functions callers pass: nil, or one that inserts a user row through the
\* transaction and then returns nil, returns an error, or panics
Fns == {NilFn} \cup [kind : {"func"}, email : TxEmails, result : {"nil", "err", "panic"}]

\* fn(ctx, tx): the rows it wrote through tx, the error it returned, the value
\* it panicked with; an insert that violates a constraint is the error returned
FnRun(fn, db) ==
    IF EmailTaken(db, fn.email)
    THEN [rows |-> <<>>, err |-> "unique violation", panic |-> ""]
    ELSE [rows |-> <<[email |-> fn.email, password_hash |-> MalformedHash]>>,
          err |-> IF fn.result = "err" THEN "fn failed" ELSE "",
          panic |-> IF fn.result = "panic" THEN "boom" ELSE ""]

DeferredRollbackOnPanicOnly(panicked, err) == panicked

\* the deferred function: tx.Rollback runs after a panic and when the error
\* being returned is not nil
DeferredRollback(panicked, err) == panicked \/ err # ""

\* a call that has done nothing yet
TxFrame(via, ctx, pool, opts, fn) ==
    [op |-> via, ctx |-> ctx, pool |-> pool, opts |-> opts, fn |-> fn,
     begun |-> FALSE, called |-> FALSE, commit |-> FALSE, commitErr |-> "",
     rolledBack |-> FALSE, fnErr |-> "", err |-> "", panic |-> ""]

\* db.WithTx: the nil guards, BeginTx, fn, Commit, and the deferred rollback.
\* A commit that fails on a lost connection leaves the rows written or not.
WithTx(via, ctx, pool, opts, fn) ==
    /\ last = NoCall
    /\ reply = NoReply
    /\ LET frame == TxFrame(via, ctx, pool, opts, fn)
       IN \/ /\ ctx = Nil
             /\ reply' = [frame EXCEPT !.err = "db: nil context"]
             /\ users' = users
          \/ /\ ctx # Nil
             /\ pool = Nil
             /\ reply' = [frame EXCEPT !.err = "db: nil pool"]
             /\ users' = users
          \/ /\ ctx # Nil
             /\ pool # Nil
             /\ fn.kind = Nil
             /\ reply' = [frame EXCEPT !.err = "db: nil fn"]
             /\ users' = users
          \/ /\ ctx # Nil
             /\ pool # Nil
             /\ fn.kind # Nil
             /\ \/ /\ Fault
                   /\ reply' = [frame EXCEPT !.err = "db: begin tx"]
                   /\ users' = users
                \/ LET r == FnRun(fn, users)
                       ran == [frame EXCEPT !.begun = TRUE, !.called = TRUE,
                                            !.fnErr = r.err, !.panic = r.panic]
                   IN \/ /\ r.panic # ""
                         /\ reply' = [ran EXCEPT
                                         !.rolledBack = DeferredRollback(TRUE, "")]
                         /\ users' = users
                      \/ /\ r.panic = ""
                         /\ r.err # ""
                         /\ reply' = [ran EXCEPT
                                         !.err = r.err,
                                         !.rolledBack = DeferredRollback(FALSE, r.err)]
                         /\ users' = users
                      \/ /\ r.panic = ""
                         /\ r.err = ""
                         /\ \/ /\ reply' = [ran EXCEPT
                                               !.commit = TRUE,
                                               !.rolledBack = DeferredRollback(FALSE, "")]
                               /\ users' = users \o r.rows
                            \/ /\ Fault
                               /\ reply' = [ran EXCEPT
                                               !.commit = TRUE,
                                               !.commitErr = "conn",
                                               !.err = "db: commit tx",
                                               !.rolledBack =
                                                   DeferredRollback(FALSE, "db: commit tx")]
                               /\ users' \in {users, users \o r.rows}
    /\ UNCHANGED <<sessions, now, procs, last, rotations, sem, requests>>

DbWithTx(ctx, pool, opts, fn) == WithTx("db.WithTx", ctx, pool, opts, fn)

\* a Store and the pool it holds
Stores == [DB : Pools]

\* Store.WithTx passes the store's pool to db.WithTx
StoreWithTx(s, ctx, opts, fn) == WithTx("Store.WithTx", ctx, s.DB, opts, fn)

\* transactions run one at a time on an empty users table
NextTx ==
    \/ TakeReply
    \/ \E ctx \in Contexts, pool \in Pools, opts \in TxIsoLevels, fn \in Fns :
          DbWithTx(ctx, pool, opts, fn)
    \/ \E s \in Stores, ctx \in Contexts, opts \in TxIsoLevels, fn \in Fns :
          StoreWithTx(s, ctx, opts, fn)

SpecTx == InitAuth /\ [][NextTx]_vars

\* the expiries callers of RotateRefresh pass: the one logins use and a later one
RotateExpiryTimes == {MaxTime, MaxTime + 1}

\* Concurrent rotations of sessions of several users, the new session given an
\* expiry of its own, while the clock runs
NextRotateOnly ==
    \/ Tick(MaxTime)
    \/ Return
    \/ \E u \in Users, s \in Secrets : CreateSession(1, u, s, MaxTime, NULL)
    \/ \E p \in Procs :
        \/ \E s \in Secrets, n \in Secrets, e \in RotateExpiryTimes :
              RotateBegin(p, s, n, e)
        \/ RotateSelect(p)
        \/ RotateFinish(p)

SpecRotate == Init /\ [][NextRotateOnly]_vars

\* ---- in-flight limiters ----

\* the largest max a limiter is built with
MaxInFlight == 2

\* make(chan struct{}, max) for max > 0; max <= 0 gives the handler unwrapped
NewLimiter(max) == IF max <= 0 THEN Unlimited ELSE [cap |-> max, len |-> 0]

\* what a full limiter answers: http.Error 503, or status ResourceExhausted
Rejection(l) == IF l = "http" THEN "503" ELSE "ResourceExhausted"

\* every limiter built with some max, no request yet
InitLimits ==
    /\ sessions = <<>>
    /\ now = 1
    /\ procs = [p \in Procs |-> Idle]
    /\ last = NoCall
    /\ rotations = {}
    /\ users = <<>>
    /\ reply = NoReply
    /\ sem \in [Limiters -> {NewLimiter(max) : max \in 0..MaxInFlight}]
    /\ requests = NoRequests

ReleaseUnlessPanic(s, held, panicked) ==
    IF held /\ ~panicked THEN [s EXCEPT !.len = @ - 1] ELSE s

\* defer func() { <-sem }(): runs when the handler returns and when it panics
Release(s, held, panicked) == IF held THEN [s EXCEPT !.len = @ - 1] ELSE s

\* the select of a limiter on an arriving request: the send on sem when the
\* channel has room, and the handler is called; default otherwise, and the
\* rejection is the answer. Without a channel the handler is called at once.
Admit(r, l) ==
    /\ requests[r].pc = "idle"
    /\ \/ /\ sem[l].cap = 0
          /\ requests' = [requests EXCEPT ![r] =
                 [NoRequest EXCEPT !.pc = "handler", !.at = l]]
          /\ UNCHANGED sem
       \/ /\ sem[l].cap > 0
          /\ sem[l].len < sem[l].cap
          /\ sem' = [sem EXCEPT ![l].len = @ + 1]
          /\ requests' = [requests EXCEPT ![r] =
                 [NoRequest EXCEPT !.pc = "handler", !.at = l, !.held = TRUE]]
       \/ /\ sem[l].cap > 0
          /\ ~(sem[l].len < sem[l].cap)
          /\ requests' = [requests EXCEPT ![r] =
                 [NoRequest EXCEPT !.pc = "done", !.at = l, !.answer = Rejection(l)]]
          /\ UNCHANGED sem
    /\ UNCHANGED <<sessions, now, procs, last, rotations, users, reply>>

InFlightLimit(r) == Admit(r, "http")

UnaryInFlightLimit(r) == Admit(r, "unary")

StreamInFlightLimit(r) == Admit(r, "stream")

\* the handler ends, normally or in a panic, and the deferred receive runs
HandlerEnds(r, panicked) ==
    /\ requests[r].pc = "handler"
    /\ sem' = [sem EXCEPT ![requests[r].at] = Release(@, requests[r].held, panicked)]
    /\ requests' = [requests EXCEPT ![r] =
           [@ EXCEPT !.pc = "done", !.held = FALSE,
                     !.answer = IF panicked THEN "panic" ELSE "ok"]]
    /\ UNCHANGED <<sessions, now, procs, last, rotations, users, reply>>

HandlerReturns(r) == HandlerEnds(r, FALSE)

HandlerPanics(r) == HandlerEnds(r, TRUE)

\* the client has its answer; it may send the next request
RequestDone(r) ==
    /\ requests[r].pc = "done"
    /\ requests' = [requests EXCEPT ![r] = NoRequest]
    /\ UNCHANGED <<sessions, now, procs, last, rotations, users, reply, sem>>

NextLimits ==
    \/ \E r \in Requests : InFlightLimit(r)
    \/ \E r \in Requests : UnaryInFlightLimit(r)
    \/ \E r \in Requests : StreamInFlightLimit(r)
    \/ \E r \in Requests : HandlerReturns(r)
    \/ \E r \in Requests : HandlerPanics(r)
    \/ \E r \in Requests : RequestDone(r)

SpecLimits == InitLimits /\ [][NextLimits]_vars

\* ---- gateway bearer check ----

\* strings.HasPrefix, as gatewayd's stringsHasPrefix computes it
stringsHasPrefix(str, prefix) ==
    IF Len(prefix) > Len(str) THEN FALSE ELSE SubSeq(str, 1, Len(prefix)) = prefix

GatewayPaths ==
    {"/healthz", "/healthz/x", "/readyz", "/v1/auth/login", "/v1/auth", "/v1/hello", "/"}

\* the tokens clients send: an access token, one with an empty subject, one
\* signed with another key, a signed refresh token, and text that is no token
GatewayTokens ==
    {NewAccessToken(u, "a@b.com", 1, accessTTL) : u \in {1, NULL}}
    \cup {NewToken(OtherKey, 1, "a@b.com", 1, accessTTL, ""),
          NewRefreshToken(1, "a@b.com", 1, refreshTTL),
          <<"not-a-jwt">>}

\* an Authorization header: its leading text and what follows it (nothing,
\* blanks, a token, a token between blanks); no header is the empty one
NoHeader == [text |-> "", rest |-> <<>>]

GatewayHeaders ==
    {NoHeader}
    \cup [text : {"Bearer ", "bearer ", "Bearer", "Basic "},
          rest : {<<>>, <<"blank">>} \cup GatewayTokens
                 \cup {<<"padded", tok>> : tok \in GatewayTokens}]

\* a *authjwt.Service that is nil
NilService == [nil |-> TRUE]

\* authctx.WithUserID and authctx.UserID: an empty user id is not stored
WithUserID(userID) ==
    IF userID = NULL THEN [userID |-> NULL, ok |-> FALSE]
    ELSE [userID |-> userID, ok |-> TRUE]

\* what a handler answers: the status it wrote itself, or "next" with the user
\* id of the context it passed on
Answered(status) == [status |-> status, next |-> FALSE, userID |-> NULL, ok |-> FALSE]

PassedOn(ctx) == [status |-> "next", next |-> TRUE, userID |-> ctx.userID, ok |-> ctx.ok]

\* httpmw.AuthBearer
AuthBearer(jwtSvc, h, t) ==
    IF jwtSvc = NilService THEN Answered("503")
    ELSE IF h = NoHeader THEN Answered("401")
    ELSE IF ~stringsHasPrefix(h.text, "Bearer ") THEN Answered("401")
    ELSE LET tok == TrimSpaceToken(h.rest) IN
         IF tok = <<>> THEN Answered("401")
         ELSE LET res == Parse(jwtSvc, tok, t) IN
              IF res.err # "nil" THEN Answered("401")
              ELSE PassedOn(WithUserID(res.claims.sub))

authSkipperAlsoReadyz(jwtSvc, path, h, t) ==
    IF path = "/healthz" \/ path = "/readyz" \/ stringsHasPrefix(path, "/v1/auth/")
    THEN PassedOn(WithUserID(NULL))
    ELSE AuthBearer(jwtSvc, h, t)

\* gatewayd's authSkipper
authSkipper(jwtSvc, path, h, t) ==
    IF path = "/healthz" THEN PassedOn(WithUserID(NULL))
    ELSE IF stringsHasPrefix(path, "/v1/auth/") THEN PassedOn(WithUserID(NULL))
    ELSE AuthBearer(jwtSvc, h, t)

\* a request at the gateway, whose validator is jwt.New(secret, issuer)
GatewayRequest(path, h) ==
    /\ last = NoCall
    /\ reply = NoReply
    /\ LET a == authSkipper(Service, path, h, now) IN
       reply' = [op |-> "gateway", path |-> path, header |-> h, at |-> now,
                 status |-> a.status, next |-> a.next, userID |-> a.userID, ok |-> a.ok]
    /\ UNCHANGED <<sessions, now, procs, last, rotations, users, sem, requests>>

NextGateway ==
    \/ Tick(2 * TicksPerSecond + 1)
    \/ TakeReply
    \/ \E path \in GatewayPaths, h \in GatewayHeaders : GatewayRequest(path, h)

SpecGateway == InitAuth /\ [][NextGateway]_vars

\* ---- health ----

\* the most dependencies a node is given
MaxDeps == 2

NodeNames == {"db", "cache"}

\* a node's Check: none, one that returns nil, one that returns an error
Checks == {"nil", "ok", "fail"}

SeqsUpTo(S, n) == UNION {[1..k -> S] : k \in 0..n}

\* the graphs Evaluate is given: a root, its dependencies, and theirs
LeafNodes == [Name : NodeNames, Check : Checks, Deps : {<<>>}]

MidNodes == [Name : NodeNames, Check : Checks, Deps : SeqsUpTo(LeafNodes, 1)]

RootNodes == [Name : {"root"}, Check : Checks, Deps : SeqsUpTo(MidNodes, MaxDeps)]

\* res.Deps[name] = dr on a map[string]Result
PutResult(m, name, dr) ==
    [k \in (DOMAIN m) \cup {name} |-> IF k = name THEN dr ELSE m[k]]

RECURSIVE Evaluate(_)

RECURSIVE EvaluateDeps(_, _)

\* the loop over n.Deps: every result is stored under its name
EvaluateDeps(ds, m) ==
    IF ds = <<>> THEN m
    ELSE LET dr == Evaluate(Head(ds)) IN EvaluateDeps(Tail(ds), PutResult(m, dr.name, dr))

\* health.Evaluate: a failing check returns at once; otherwise the node is
\* healthy when the map of results is empty or holds healthy results only
Evaluate(n) ==
    IF n.Check = "fail"
    THEN [name |-> n.Name, healthy |-> FALSE, error |-> "down", deps |-> <<>>]
    ELSE LET m == EvaluateDeps(n.Deps, <<>>) IN
         [name |-> n.Name,
          healthy |-> IF DOMAIN m = {} THEN TRUE ELSE \A k \in DOMAIN m : m[k].healthy,
          error |-> "",
          deps |-> m]

NoResult == [name |-> "", healthy |-> FALSE, error |-> "", deps |-> <<>>]

\* health.Handler: 503 NOT_SERVING when serving() is false, else the result
\* of Evaluate as JSON, with 503 when it is not healthy
Handler(root, serving) ==
    /\ last = NoCall
    /\ reply = NoReply
    /\ \/ /\ serving = "false"
          /\ reply' = [op |-> "health", root |-> root, serving |-> serving,
                       status |-> "503", body |-> "NOT_SERVING", out |-> NoResult]
       \/ /\ serving # "false"
          /\ LET out == Evaluate(root) IN
             reply' = [op |-> "health", root |-> root, serving |-> serving,
                       status |-> IF out.healthy THEN "200" ELSE "503",
                       body |-> "json", out |-> out]
    /\ UNCHANGED <<sessions, now, procs, last, rotations, users, sem, requests>>

NextHealth ==
    \/ TakeReply
    \/ \E root \in RootNodes, serving \in {"nil", "true", "false"} : Handler(root, serving)

SpecHealth == InitAuth /\ [][NextHealth]_vars

\* Validate beside a session store whose sessions are created and revoked
NextValidate ==
    \/ Tick(MaxTime + 1)
    \/ Return
    \/ TakeReply
    \/ \E u \in Users, s \in Secrets, e \in ExpiryTimes : CreateSession(1, u, s, e, NULL)
    \/ \E s \in Secrets : RevokeSessionByRefresh(1, s)
    \/ \E u \in Users : RevokeAll(1, u)
    \/ \E r \in ValidateRequests : Validate(r)

SpecValidate == Init /\ [][NextValidate]_vars


\* ---------------------------------------------------------------- properties

\* the rows holding the digest of secret s
RowsOfSecret(ss, s) == {i \in 1..Len(ss) : ss[i].refresh_token_hash = <<"sha256", s>>}

\* the rows whose rotated_from is id
Successors(ss, id) == {j \in 1..Len(ss) : ss[j].rotated_from = id}

\* the successful rotations out of row id
RotationsFrom(id) == {r \in rotations : r.from = id}

\* a step in which a RotateRefresh call returns
RotateReturns == last = NoCall /\ last'.op = "rotate"

\* a step in which a RotateRefresh call returns without having reached its UPDATE
RotateReturnsAtCheck ==
    RotateReturns /\ \A p \in Procs : ~(procs[p].pc = "insert" /\ procs'[p].pc = "idle")

\* C1: over every interleaving of CreateSession, RotateRefresh,
\* RevokeSessionByRefresh and RevokeAll, a refresh secret is the old secret of
\* at most one successful RotateRefresh.
C1_RotatedAtMostOnce ==
    \A s \in Secrets : Cardinality({r \in rotations : r.tok = s}) <= 1

\* a RotateRefresh of a secret that has already been rotated returned a failure
C1_Witness ==
    /\ last.op = "rotate"
    /\ last.res = "ErrRefreshRevoked"
    /\ \E r \in rotations : r.tok = last.tok

\* C2: of the RotateRefresh calls racing on one active secret exactly one
\* succeeds: whenever such a call returns, the session has at most one
\* successful rotation and exactly as many successor rows; a call that returns
\* nil is that one rotation; once the rotation exists every other call returns
\* ErrRefreshRevoked (or the driver's error); and ErrRefreshRevoked and
\* ErrRefreshExpired are returned only for a session that is revoked, resp.
\* expired, so the calls never all lose on an active session.
C2_OneWinner ==
    last.op = "rotate" =>
        \A i \in RowsOfSecret(sessions, last.tok) :
            /\ Cardinality(RotationsFrom(i)) <= 1
            /\ Cardinality(Successors(sessions, i)) = Cardinality(RotationsFrom(i))
            /\ last.res = "ok" =>
                   RotationsFrom(i) # {} /\ sessions[i].revoked_at # NULL
            /\ (last.res # "ok" /\ RotationsFrom(i) # {}) =>
                   last.res \in {"ErrRefreshRevoked", "ErrConn"}
            /\ last.res = "ErrRefreshRevoked" => sessions[i].revoked_at # NULL
            /\ last.res = "ErrRefreshExpired" => sessions[i].expires_at <= now

\* a call that waited for the winner's row lock returned ErrRefreshRevoked
C2_Witness ==
    /\ last.op = "rotate"
    /\ last.waited
    /\ last.res = "ErrRefreshRevoked"
    /\ \E i \in RowsOfSecret(sessions, last.tok) : RotationsFrom(i) # {}

C4_OneSuccessorPerSession ==
    \A i \in 1..Len(sessions) :
        /\ Cardinality(Successors(sessions, i)) <= 1
        /\ Cardinality(Successors(sessions, i)) = Cardinality(RotationsFrom(i))

\* C5: a RotateRefresh that returns while the session of its secret is revoked
\* returns ErrRefreshRevoked (or the driver's error), also when the session is
\* past its expiry, and changes no row.
C5_RevokedIsRefused ==
    [][ (RotateReturns
         /\ \E i \in RowsOfSecret(sessions, last'.tok) : sessions[i].revoked_at # NULL)
        => (last'.res \in {"ErrRefreshRevoked", "ErrConn"} /\ sessions' = sessions)
      ]_vars

\* a RotateRefresh of a session both revoked and expired returned ErrRefreshRevoked
C5_Witness ==
    /\ last.op = "rotate"
    /\ last.res = "ErrRefreshRevoked"
    /\ \E i \in RowsOfSecret(sessions, last.tok) :
           sessions[i].revoked_at # NULL /\ sessions[i].expires_at < now

\* C6: a RotateRefresh that reads its session unrevoked with expires_at not
\* strictly after the current time returns ErrRefreshExpired (or the driver's
\* error) and changes no row; a call goes on to its UPDATE only for a session
\* whose expires_at is strictly after the current time.
C6_ExpiredIsRefused ==
    [][ /\ (RotateReturnsAtCheck
            /\ \E i \in RowsOfSecret(sessions, last'.tok) :
                   sessions[i].revoked_at = NULL /\ sessions[i].expires_at <= now)
           => (last'.res \in {"ErrRefreshExpired", "ErrConn"} /\ sessions' = sessions)
        /\ \A p \in Procs :
               (procs[p].pc # "insert" /\ procs'[p].pc = "insert")
               => sessions[procs'[p].sid].expires_at > now
      ]_vars

\* an unrevoked session was refused at the very instant of its expiry
C6_Witness ==
    /\ last.op = "rotate"
    /\ last.res = "ErrRefreshExpired"
    /\ \E i \in RowsOfSecret(sessions, last.tok) :
           sessions[i].revoked_at = NULL /\ sessions[i].expires_at = now

\* C7: a RotateRefresh whose secret matches no row returns ErrRefreshInvalid
\* (or the driver's error) and changes no row.
C7_UnknownIsInvalid ==
    [][ (RotateReturns /\ RowsOfSecret(sessions, last'.tok) = {})
        => (last'.res \in {"ErrRefreshInvalid", "ErrConn"} /\ sessions' = sessions)
      ]_vars

\* a RotateRefresh of a secret unknown to a non-empty table returned
\* ErrRefreshInvalid
C7_Witness ==
    /\ last.op = "rotate"
    /\ last.res = "ErrRefreshInvalid"
    /\ RowsOfSecret(sessions, last.tok) = {}
    /\ Len(sessions) > 0

\* C8: revoked_at is write-once: no step clears or changes the revoked_at of a
\* row that has one, and no step removes the row.
C8_RevokedAtWriteOnce ==
    [][ \A i \in 1..Len(sessions) :
            sessions[i].revoked_at # NULL
            => (i <= Len(sessions') /\ sessions'[i].revoked_at = sessions[i].revoked_at)
      ]_vars

\* a RevokeAll that waited for a rotation of one of its user's sessions has
\* returned, and that session carries the rotation's earlier revoked_at
C8_Witness ==
    /\ last.op = "revokeAll"
    /\ last.waited
    /\ \E i \in 1..Len(sessions) :
           /\ sessions[i].user_id = last.uid
           /\ Successors(sessions, i) # {}
           /\ sessions[i].revoked_at # NULL
           /\ sessions[i].revoked_at < now

\* C9: every row with a rotated_from references an existing row that is
\* revoked, rows inserted by CreateSession with a caller-supplied rotatedFrom
\* included.
C9_RotatedFromIsRevoked ==
    \A j \in 1..Len(sessions) :
        sessions[j].rotated_from # NULL
        => /\ sessions[j].rotated_from \in 1..Len(sessions)
           /\ sessions[sessions[j].rotated_from].revoked_at # NULL

\* no two rows of ss hold the same digest
DigestsDistinct(ss) ==
    \A i, j \in 1..Len(ss) :
        ss[i].refresh_token_hash = ss[j].refresh_token_hash => i = j

\* C10: no two rows share a refresh_token_hash; a CreateSession, and a
\* RotateRefresh at its INSERT, whose digest a row already holds fails and
\* inserts nothing.
C10_DigestUnique ==
    [][ /\ DigestsDistinct(sessions')
        /\ (last = NoCall /\ last'.op = "create"
            /\ RowsOfSecret(sessions, last'.tok) # {})
           => (last'.res \in {"ErrConstraint", "ErrConn"} /\ sessions' = sessions)
        /\ \A p \in Procs :
               (procs[p].pc = "insert" /\ procs'[p].pc = "idle"
                /\ RowsOfSecret(sessions, procs[p].new) # {})
               => (last'.res \in {"ErrConstraint", "ErrConn"} /\ sessions' = sessions)
      ]_vars

\* a CreateSession of a secret whose digest a row holds was refused
C10_Witness ==
    /\ last.op = "create"
    /\ last.res = "ErrConstraint"
    /\ RowsOfSecret(sessions, last.tok) # {}
    /\ Len(sessions) < MaxSessions

\* the columns of a session row other than refresh_token_hash
OtherColumns == {"user_id", "expires_at", "revoked_at", "rotated_from"}

\* C11: in every reachable state the refresh_token_hash of every row is a sha256
\* digest, never a secret as it was passed to CreateSession or RotateRefresh,
\* and no other column of any row holds a secret.
C11_OnlyDigestStored ==
    \A i \in 1..Len(sessions) :
        /\ sessions[i].refresh_token_hash[1] = "sha256"
        /\ sessions[i].refresh_token_hash[2] \in Secrets
        /\ \A c \in OtherColumns : sessions[i][c] \notin Secrets

\* the table holds a row written by CreateSession and its successor written by
\* RotateRefresh
C11_Witness ==
    /\ last.op = "rotate"
    /\ last.res = "ok"
    /\ \E r \in rotations :
           /\ sessions[r.from].rotated_from = NULL
           /\ sessions[r.id].refresh_token_hash # sessions[r.from].refresh_token_hash

\* ---------------------------------------------------------------- C12
\* C12: ValidateRefresh returns the session and its owner only when a row with
\* the secret's digest exists that is not revoked and not expired; when no such
\* row exists, or when the owner cannot be fetched for whatever reason, it
\* returns ErrRefreshInvalid, and it never returns a "user missing" error.
C12_ValidateOnlyActive ==
    last.op = "validate" =>
        LET rows == RowsOfSecret(sessions, last.tok)
            active == {i \in rows : /\ sessions[i].revoked_at = NULL
                                    /\ sessions[i].expires_at > now}
        IN
        /\ last.res # "ErrNotFound"
        /\ last.res = "ok" => \E i \in active : sessions[i].user_id = last.uid
                                                  /\ last.uid \in 1..Len(users)
        /\ (active = {} /\ last.cause # "sessionQuery") => last.res = "ErrRefreshInvalid"
        /\ last.cause = "ownerFetch" => last.res = "ErrRefreshInvalid"

\* the owner of an active session could not be fetched and the caller was told
\* the secret is invalid
C12_Witness ==
    /\ last.op = "validate"
    /\ last.cause = "ownerFetch"
    /\ last.res = "ErrRefreshInvalid"
    /\ \E i \in RowsOfSecret(sessions, last.tok) :
           sessions[i].revoked_at = NULL /\ sessions[i].expires_at > now

\* ---------------------------------------------------------------- C13
\* C13: ValidateRefresh leaves the store as it was, whatever it returns, and a
\* secret that validated passes the checks of RotateRefresh right afterwards.
C13_ValidateReadsOnly ==
    [][ (last = NoCall /\ last'.op = "validate") =>
            /\ sessions' = sessions
            /\ users' = users
            /\ rotations' = rotations
            /\ last'.res = "ok" =>
                   \E i \in RowsOfSecret(sessions', last'.tok) :
                       CheckResult(sessions'[i].revoked_at, sessions'[i].expires_at,
                                   now') = "pass"
      ]_vars

\* a secret was validated while another session of the same user was already
\* revoked, and its own session is still unrevoked
C13_Witness ==
    /\ last.op = "validate"
    /\ last.res = "ok"
    /\ \E i \in RowsOfSecret(sessions, last.tok) :
           /\ sessions[i].revoked_at = NULL
           /\ sessions[i].expires_at > now
           /\ \E j \in 1..Len(sessions) :
                  /\ j # i
                  /\ sessions[j].user_id = sessions[i].user_id
                  /\ sessions[j].revoked_at # NULL

\* ---------------------------------------------------------------- C14
\* C14: RevokeSessionByRefresh with the secret of an unrevoked session returns
\* ok and sets that session's revoked_at, touching nothing else; with the secret
\* of a session that is already revoked, or of no session, it returns
\* ErrRefreshInvalid and changes no row (a driver failure returns the driver's
\* error and changes no row).
C14_RevokeOnce ==
    [][ (last = NoCall /\ last'.op = "revoke") =>
            LET rows == RowsOfSecret(sessions, last'.tok)
                open == {i \in rows : sessions[i].revoked_at = NULL}
            IN
            \/ last'.res = "ErrConn" /\ sessions' = sessions
            \/ /\ open # {}
               /\ last'.res = "ok"
               /\ sessions' = [i \in 1..Len(sessions) |->
                                  IF i \in open
                                  THEN [sessions[i] EXCEPT !.revoked_at = now]
                                  ELSE sessions[i]]
               /\ now # NULL
            \/ /\ open = {}
               /\ last'.res = "ErrRefreshInvalid"
               /\ sessions' = sessions
      ]_vars

\* the secret of a session revoked at an earlier instant was presented again and
\* refused, and the stamp of the first revocation is still there
C14_Witness ==
    /\ last.op = "revoke"
    /\ last.res = "ErrRefreshInvalid"
    /\ \E i \in RowsOfSecret(sessions, last.tok) :
           /\ sessions[i].revoked_at # NULL
           /\ sessions[i].revoked_at < now
           /\ Successors(sessions, i) = {}

\* ---------------------------------------------------------------- C15
\* C15: when RevokeAll(userID) returns ok, every session of that user that was
\* unrevoked when the call began (the active ones among them) is revoked and
\* the sessions of other users are as they were; the call leaves the user no
\* unrevoked session, so running it again writes nothing, and for a user with
\* no unrevoked session it returns ok and changes no row. Only a driver failure
\* makes it return anything but ok, and then it changes no row.
C15_RevokeAllIdempotent ==
    [][ (last = NoCall /\ last'.op = "revokeAll") =>
            LET u == last'.uid
                mine == {i \in 1..Len(sessions) : sessions[i].user_id = u}
                open == {i \in mine : sessions[i].revoked_at = NULL}
            IN
            /\ last'.res \in {"ok", "ErrConn"}
            /\ last'.res = "ErrConn" => sessions' = sessions
            /\ last'.res = "ok" =>
                 /\ Len(sessions') = Len(sessions)
                 /\ \A i \in open : sessions'[i].revoked_at # NULL
                 /\ \A i \in 1..Len(sessions) \ open : sessions'[i] = sessions[i]
                 /\ open = {} => sessions' = sessions
                 /\ \A t \in 1..(MaxTime + 1) :
                        RevokeWhereNull(sessions', RevokeAllRows(sessions', u), t)
                            = sessions'
      ]_vars

\* RevokeAll ran again for a user all of whose sessions were revoked at an
\* earlier instant, while another user holds an unrevoked session
C15_Witness ==
    /\ last.op = "revokeAll"
    /\ last.res = "ok"
    /\ \E i \in 1..Len(sessions) : sessions[i].user_id = last.uid
    /\ \A i \in 1..Len(sessions) :
           sessions[i].user_id = last.uid
           => (sessions[i].revoked_at # NULL /\ sessions[i].revoked_at < now)
    /\ \E j \in 1..Len(sessions) :
           sessions[j].user_id # last.uid /\ sessions[j].revoked_at = NULL

\* ---------------------------------------------------------------- C16
\* what the caller sees of a response
External(r) == [code |-> r.code, msg |-> r.msg, user_id |-> r.user_id,
                email |-> r.email, access |-> r.access, refresh |-> r.refresh]

\* C16: every successful Login adds a session row for the authenticated user
\* and returns, with a minted access token, an opaque refresh secret whose
\* digest is that row's refresh_token_hash.
C16_LoginCreatesSession ==
    [][ (reply = NoReply /\ reply'.op = "login" /\ reply'.code = "OK") =>
            /\ reply'.access # <<>>
            /\ Len(sessions') = Len(sessions) + 1
            /\ sessions'[Len(sessions')].user_id = reply'.user_id
            /\ sessions'[Len(sessions')].refresh_token_hash
                   = HashRefreshToken(reply'.refresh)
      ]_vars

\* ---------------------------------------------------------------- C17
\* C17: after a successful Register and a successful Login, the first Refresh
\* with the refresh token Login returned succeeds and returns a different
\* refresh token, and every later Refresh with the original token fails (a
\* driver failure apart).
C17_RefreshOnceEndToEnd ==
    [][ /\ (reply.op = "login" /\ reply.code = "OK" /\ reply'.op = "refresh"
            /\ reply'.cause # "ErrConn")
           => (reply'.code = "OK" /\ reply'.refresh # reply.refresh)
        /\ (reply.op = "refresh" /\ reply'.op = "refresh")
           => reply'.code # "OK"
      ]_vars

\* ---------------------------------------------------------------- C18
\* C18: Login with an email that has no user record and Login with the email
\* of a user and a wrong password give the caller the same response: status
\* Unauthenticated with the same message, and nothing else.
C18_MissAndMismatchAlike ==
    (reply.op = "login" /\ reply.cause \in {"ErrNotFound", "ErrMismatch"})
    => External(reply) = External(Failed("login", "Unauthenticated",
                                         "invalid credentials", reply.cause))

\* a wrong password was refused for a registered user while another request
\* email has no user record
C18_Witness ==
    /\ reply.op = "login"
    /\ reply.cause = "ErrMismatch"
    /\ \E id \in 1..Len(users) : ParseOk(users[id].password_hash)
    /\ \E e \in RequestEmails :
           EmailMatches(NormalizeEmail(e)) /\ UsersByEmail(users, NormalizeEmail(e)) = {}

\* ---------------------------------------------------------------- C19
\* C19: in Login both failures of password.Verify, ErrMismatch and
\* ErrInvalidHash, give the caller the same unauthenticated response.
C19_VerifyFailuresAlike ==
    (reply.op = "login" /\ reply.cause \in {"ErrMismatch", "ErrInvalidHash"})
    => (reply.code = "Unauthenticated" /\ reply.msg = "invalid credentials")

\* ---------------------------------------------------------------- C20
\* C20: in Register and Login a failure of the store that is neither a lookup
\* miss nor a uniqueness conflict (a connectivity failure) is answered with the
\* generic internal failure.
C20_StoreFailureIsInternal ==
    (reply.op \in {"register", "login"} /\ reply.cause \in {"ErrConn", "conn"})
    => (reply.code = "Internal" /\ reply.msg = "internal error")

\* ---------------------------------------------------------------- C21
\* C21: Refresh answers each of Rotate's three failures, ErrRefreshInvalid,
\* ErrRefreshRevoked and ErrRefreshExpired, with one and the same response, so
\* the caller cannot tell an unknown secret from a revoked or an expired one.
C21_RefreshFailuresAlike ==
    (reply.op = "refresh"
     /\ reply.cause \in {"ErrRefreshInvalid", "ErrRefreshRevoked", "ErrRefreshExpired"})
    => External(reply) = External(Failed("refresh", "Unauthenticated",
                                         "invalid refresh token", reply.cause))

\* the secret of an unrevoked session past its expiry was refused while another
\* session is revoked and a third secret has no session
C21_Witness ==
    /\ reply.op = "refresh"
    /\ reply.cause = "ErrRefreshExpired"
    /\ \E i \in RowsOfSecret(sessions, reply.presented) :
           sessions[i].revoked_at = NULL /\ sessions[i].expires_at < now
    /\ \E j \in 1..Len(sessions) : sessions[j].revoked_at # NULL
    /\ \E x \in Secrets : RowsOfSecret(sessions, x) = {}

\* ---------------------------------------------------------------- C22
\* C22: Register answers invalid-argument to an email that, trimmed and
\* lowercased, has not the shape of an address, and to a password shorter than
\* 12 characters; on such a rejection no user row is created and password.Hash
\* has not been called.
C22_RejectsBeforeHashing ==
    [][ (reply = NoReply /\ reply'.op = "register"
         /\ \/ ~EmailMatches(NormalizeEmail(reply'.presented[1]))
            \/ Chars(reply'.presented[2]) < 12)
        => /\ reply'.code = "InvalidArgument"
           /\ users' = users
           /\ ~reply'.hashed
      ]_vars

\* ---------------------------------------------------------------- C23
\* the users table holds normalised emails, each in at most one row
EmailsDistinct(us) ==
    \A i, j \in 1..Len(us) :
        /\ NormalizeEmail(us[i].email) = us[i].email
        /\ us[i].email = us[j].email => i = j

\* C23: whatever the order and interleaving of Register calls, no two user
\* rows have the same normalised email: among the calls whose emails normalise
\* to one value the one whose INSERT comes first succeeds, and every other one
\* answers already-exists and creates no row (a driver failure answers internal
\* and creates no row either).
C23_OneUserPerEmail ==
    [][ /\ EmailsDistinct(users')
        /\ (reply = NoReply /\ reply'.op = "register" /\ reply'.hashed
            /\ reply'.cause # "hash") =>
             LET email == NormalizeEmail(reply'.presented[1]) IN
             IF \E i \in 1..Len(users) : users[i].email = email
             THEN /\ users' = users
                  /\ reply'.code = "AlreadyExists" \/ reply'.cause = "conn"
             ELSE \/ /\ reply'.code = "OK"
                     /\ Len(users') = Len(users) + 1
                     /\ users'[Len(users')].email = email
                     /\ \A i \in 1..Len(users) : users'[i] = users[i]
                  \/ /\ reply'.cause = "conn"
                     /\ reply'.code = "Internal"
                     /\ users' = users
      ]_vars

\* a registration with the email in capitals and blanks was answered
\* already-exists after a concurrent one for the same address had inserted its
\* row, while the other address of the requests has a row as well
C23_Witness ==
    /\ reply.op = "register"
    /\ reply.code = "AlreadyExists"
    /\ reply.presented[1] = " A@B.com "
    /\ Len(users) = 2
    /\ \E p \in Procs : \E c \in procs[p].cand : c.email = "a@b.com"

\* ---------------------------------------------------------------- C24
\* C24: Parse returns claims only for a text that is a token signed HS256 with
\* the service's key, carrying the service's issuer, at a time before its
\* expiry; every other text is rejected, and with ErrInvalidToken only.
C24_ParseChecksAll ==
    reply.op = "parse" =>
        LET t == reply.token IN
        /\ reply.res.err \in {"nil", "ErrInvalidToken"}
        /\ reply.res.err = "nil" =>
               /\ t[1] = "jwt"
               /\ t[2] = "HS256"
               /\ t[3] = "key"
               /\ t[4].iss = "auth"
               /\ reply.at < t[4].exp
               /\ reply.res.claims = t[4]
        /\ reply.res.err # "nil" => reply.res.claims = NoClaims

\* a token of the service itself, with its key and issuer, was rejected at the
\* very instant of its expiry
C24_Witness ==
    /\ reply.op = "parse"
    /\ reply.res.err = "ErrInvalidToken"
    /\ reply.token[1] = "jwt"
    /\ reply.token[2] = "HS256"
    /\ reply.token[3] = "key"
    /\ reply.token[4].iss = "auth"
    /\ reply.at = reply.token[4].exp

C26_ValidateIgnoresStore ==
    [][ (reply = NoReply /\ reply'.op = "validate") =>
            LET tok == TrimSpaceToken(reply'.presented)
                good == /\ tok # <<>>
                        /\ tok[1] = "jwt"
                        /\ tok[2] = "HS256"
                        /\ tok[3] = "key"
                        /\ tok[4].iss = "auth"
                        /\ now < tok[4].exp
            IN
            /\ sessions' = sessions
            /\ users' = users
            /\ rotations' = rotations
            /\ External(reply') =
                 IF tok = <<>>
                 THEN External(Failed("validate", "InvalidArgument",
                                      "access_token required", "empty"))
                 ELSE IF good
                 THEN External([NoReply EXCEPT !.code = "OK", !.user_id = tok[4].sub,
                                               !.email = tok[4].email])
                 ELSE External(Failed("validate", "Unauthenticated", "invalid token",
                                      "ErrInvalidToken"))
      ]_vars

\* the access token of a user id that has no row in users was accepted while
\* every session in the store is revoked
C26_Witness ==
    /\ reply.op = "validate"
    /\ reply.code = "OK"
    /\ reply.user_id \notin 1..Len(users)
    /\ Len(sessions) > 0
    /\ \A i \in 1..Len(sessions) : sessions[i].revoked_at # NULL

\* ---------------------------------------------------------------- C27
\* C27: for every non-empty password p, Hash(p) succeeds unless the random
\* source fails, Verify(p, Hash(p)) succeeds, and for every p2 other than p
\* Verify(p2, Hash(p)) fails with ErrMismatch, not with ErrInvalidHash.
C27_HashVerifyRoundTrip ==
    /\ (reply.op = "hash" /\ reply.plaintext # "")
       => reply.res.err \in {"nil", "rand salt"}
    /\ reply.op = "verify" =>
           \A p \in reply.hashed :
               /\ reply.plaintext = p => reply.err = "nil"
               /\ reply.plaintext # p => reply.err = "ErrMismatch"

\* the empty password and another password were both refused as mismatches of
\* the hash of a password
C27_Witness ==
    /\ reply.op = "verify"
    /\ reply.err = "ErrMismatch"
    /\ reply.hashed = {"twelvecharpw!"}
    /\ reply.plaintext = "otherlongpass"
    /\ Verify("", reply.encoded) = "ErrMismatch"
    /\ Verify("twelvecharpw!", reply.encoded) = "nil"

\* ---------------------------------------------------------------- C28
\* C28: every RotateRefresh that holds the lock of a session row releases it
\* in the end, by commit or by rollback, and every RotateRefresh that waits for
\* the lock of a row returns in the end, with the lock or with the error that
\* ended its wait.
C28_LockReleased ==
    \A p \in Procs :
        /\ (procs[p].pc = "insert") ~> (procs[p].pc = "idle")
        /\ (procs[p].pc = "select") ~> (procs[p].pc = "idle")

\* one caller holds the lock of a row and the other one waits for it
C28_Witness ==
    \E p, q \in Procs :
        /\ procs[p].pc = "insert"
        /\ procs[q].pc = "select"
        /\ procs[q].sid = procs[p].sid
        /\ RowLocked(procs[q].sid, q)

\* C29: db.WithTx (and Store.WithTx, which passes its pool on) calls Commit if
\* and only if fn was called and returned nil without panicking. When fn
\* returns an error or panics, the transaction is rolled back, Commit is not
\* called, the table is unchanged, and the caller gets fn's error or the same
\* panic. A failed commit is returned as an error. With a nil ctx, pool or fn
\* the call returns an error, begins no transaction and does not call fn.
C29_CommitsIffFnNil ==
    [][(reply.op = "none" /\ reply'.op \in {"db.WithTx", "Store.WithTx"}) =>
        LET r == reply'
            fnFailed == r.called /\ (r.fnErr # "" \/ r.panic # "")
        IN /\ r.commit <=> (r.called /\ r.fnErr = "" /\ r.panic = "")
           /\ fnFailed =>
                 /\ r.rolledBack
                 /\ ~r.commit
                 /\ users' = users
                 /\ r.err = r.fnErr
                 /\ r.panic = FnRun(r.fn, users).panic
           /\ r.commitErr # "" => r.err = "db: commit tx"
           /\ (~r.commit \/ r.commitErr # "") => (r.err # "" \/ r.panic # "")
           /\ (r.commit /\ r.commitErr = "") =>
                 (r.err = "" /\ users' = users \o FnRun(r.fn, users).rows)
           /\ (r.ctx = Nil \/ r.pool = Nil \/ r.fn.kind = Nil) =>
                 /\ r.err # ""
                 /\ ~r.begun
                 /\ ~r.called
                 /\ users' = users]_vars

\* one function's error has rolled its transaction back after another's rows
\* were committed
C29_Witness ==
    /\ reply.op \in {"db.WithTx", "Store.WithTx"}
    /\ reply.called
    /\ reply.fnErr # ""
    /\ reply.rolledBack
    /\ ~reply.commit
    /\ Len(users) = 1

\* what makes a session active: revoked_at is unset and expires_at is strictly
\* later than the instant t
ActiveRow(ss, refreshToken, t) ==
    \E i \in RowsByHash(ss, HashRefreshToken(refreshToken)) :
        ss[i].revoked_at = NULL /\ ss[i].expires_at > t

RotateRejections == {"ErrRefreshInvalid", "ErrRefreshRevoked", "ErrRefreshExpired"}

\* C30: ValidateRefresh and RotateRefresh apply one definition of an active
\* session. In every state and for every secret, the row ValidateRefresh
\* selects exists exactly when the lookup and the checks of RotateRefresh pass,
\* which is exactly when a row of the secret has revoked_at unset and
\* expires_at strictly later than now. Every ValidateRefresh whose two queries
\* were answered succeeds exactly then (the owner of a session always exists),
\* and every RotateRefresh that gets past its checks, or is rejected by them,
\* does so accordingly.
C30_SameActiveDefinition ==
    /\ [](\A s \in Secrets :
            /\ (ValidateRows(sessions, HashRefreshToken(s), now) # {})
                  <=> (RotateChecks(sessions, s, now) = "pass")
            /\ (RotateChecks(sessions, s, now) = "pass") <=> ActiveRow(sessions, s, now))
    /\ [][/\ (last = NoCall /\ last'.op = "validate" /\ last'.cause = "none") =>
               /\ \A i \in RowsByHash(sessions, HashRefreshToken(last'.tok)) :
                      GetUserByID(users, sessions[i].user_id) = "nil"
               /\ (last'.res = "ok") <=> ActiveRow(sessions, last'.tok, now)
               /\ (last'.res = "ok") <=> (RotateChecks(sessions, last'.tok, now) = "pass")
          /\ (procs[1].pc = "idle" /\ procs'[1].pc = "insert") =>
               ActiveRow(sessions, procs'[1].tok, now)
          /\ (procs[1].pc = "idle" /\ last = NoCall /\ last'.op = "rotate"
                /\ last'.res \in RotateRejections) =>
               ~ActiveRow(sessions, last'.tok, now)]_vars

\* after a rotation, ValidateRefresh has just rejected a session that is not
\* revoked and expires at this very instant
C30_Witness ==
    /\ rotations # {}
    /\ last.op = "validate"
    /\ last.res = "ErrRefreshInvalid"
    /\ \E i \in RowsByHash(sessions, HashRefreshToken(last.tok)) :
          /\ sessions[i].revoked_at = NULL
          /\ sessions[i].expires_at = now
          /\ RotateChecks(sessions, last.tok, now) = "ErrRefreshExpired"

\* C31: a successful RotateRefresh commits exactly two changes. The old
\* session's revoked_at goes from unset to the time the call read after taking
\* the lock, and nothing else of that row changes; one row is appended with the
\* old session's user_id, the digest of the new secret, the expiry the caller
\* passed, revoked_at unset and rotated_from the old session's id. The user
\* returned is the old session's owner, and every other row and the users
\* table stay as they were.
C31_RotateCommitsTwoChanges ==
    [][(RotateReturns /\ last'.res = "ok") =>
        \E p \in Procs :
            LET pr == procs[p]
                old == pr.sid
            IN /\ pr.pc = "insert"
               /\ procs'[p].pc = "idle"
               /\ old \in RowsOfSecret(sessions, last'.tok)
               /\ sessions[old].revoked_at = NULL
               /\ pr.tnow # NULL
               /\ pr.tnow <= now
               /\ sessions'[old] = [sessions[old] EXCEPT !.revoked_at = pr.tnow]
               /\ Len(sessions') = Len(sessions) + 1
               /\ sessions'[Len(sessions')] =
                      [user_id |-> sessions[old].user_id,
                       refresh_token_hash |-> HashRefreshToken(pr.new),
                       expires_at |-> pr.exp,
                       revoked_at |-> NULL,
                       rotated_from |-> old]
               /\ \A j \in (1..Len(sessions)) \ {old} : sessions'[j] = sessions[j]
               /\ last'.uid = sessions[old].user_id
               /\ GetUserByID(users, last'.uid) = "nil"
               /\ users' = users]_vars

\* a rotation has just returned its user while another session of the table
\* belongs to someone else, and the clock has moved since the old session was
\* revoked
C31_Witness ==
    /\ last.op = "rotate"
    /\ last.res = "ok"
    /\ last.uid # NULL
    /\ \E i, j \in 1..Len(sessions) :
          /\ sessions[j].rotated_from = i
          /\ sessions[i].revoked_at # NULL
          /\ sessions[i].revoked_at < now
          /\ sessions[j].user_id = last.uid
          /\ sessions[j].expires_at # sessions[i].expires_at
    /\ \E k \in 1..Len(sessions) : sessions[k].user_id # last.uid

\* the requests whose handler is running behind limiter l
Running(rs, l) == {r \in Requests : rs[r].pc = "handler" /\ rs[r].at = l}

\* C32: behind a limiter built with max > 0 never more than max handlers run,
\* and the tokens in its channel are exactly the running handlers, so every
\* handler that returned or panicked has given its slot back. A request that
\* arrives while max handlers run is answered at once with the rejection (503,
\* ResourceExhausted) and its handler is not called; one that arrives while
\* fewer run is let in.
C32_InFlightBounded ==
    /\ [](\A l \in Limiters :
            sem[l].cap > 0 =>
                /\ Cardinality(Running(requests, l)) <= sem[l].cap
                /\ sem[l].len = Cardinality(Running(requests, l)))
    /\ [][\A r \in Requests, l \in Limiters :
            (requests[r].pc = "idle" /\ requests'[r].at = l /\ sem[l].cap > 0) =>
                IF Cardinality(Running(requests, l)) = sem[l].cap
                THEN /\ requests'[r].pc = "done"
                     /\ requests'[r].answer = Rejection(l)
                     /\ Running(requests', l) = Running(requests, l)
                     /\ sem' = sem
                ELSE /\ requests'[r].pc = "handler"
                     /\ Running(requests', l) = Running(requests, l) \cup {r}]_vars

\* a handler behind a limiter with max = 1 has panicked, the next request got
\* its slot, and a third one was turned away
C32_Witness ==
    \E l \in Limiters : \E r1, r2, r3 \in Requests :
        /\ sem[l].cap = 1
        /\ requests[r1].at = l /\ requests[r1].pc = "done" /\ requests[r1].answer = "panic"
        /\ requests[r2].at = l /\ requests[r2].pc = "handler"
        /\ requests[r3].at = l /\ requests[r3].pc = "done"
        /\ requests[r3].answer = Rejection(l)

\* the token an Authorization header carries when it has the form
\* "Bearer <token>": the text after "Bearer " without the blanks around it
BearerToken(h) ==
    IF h.text = "Bearer " THEN TrimSpaceToken(h.rest) ELSE <<>>

\* C33: at the gateway a request whose path is neither /healthz nor under
\* /v1/auth/ reaches the downstream handler only if its Authorization header is
\* "Bearer <token>" and Parse accepts the token at that time; the user id of
\* the context passed on is then the token's subject (none when the subject is
\* empty). Every other such request is answered 401 and the downstream handler
\* is not called.
C33_BearerRequired ==
    [][(reply.op = "none" /\ reply'.op = "gateway"
          /\ reply'.path # "/healthz"
          /\ ~stringsHasPrefix(reply'.path, "/v1/auth/")) =>
        LET r == reply'
            tok == BearerToken(r.header)
            accepted == tok # <<>> /\ Parse(Service, tok, now).err = "nil"
        IN /\ r.next <=> accepted
           /\ r.next =>
                 /\ r.status = "next"
                 /\ r.userID = Parse(Service, tok, now).claims.sub
                 /\ r.ok <=> (r.userID # NULL)
           /\ ~r.next => r.status = "401"]_vars

\* a request for /readyz with a token that has run out was answered 401
C33_Witness ==
    /\ reply.op = "gateway"
    /\ reply.path = "/readyz"
    /\ reply.header.text = "Bearer "
    /\ reply.header.rest = <<"padded", NewAccessToken(1, "a@b.com", 1, accessTTL)>>
    /\ reply.status = "401"
    /\ ~reply.next

RECURSIVE AllHealthy(_)

\* a node's own check returns no error and so does, recursively, the check of
\* every node under it
AllHealthy(n) ==
    /\ n.Check # "fail"
    /\ \A i \in 1..Len(n.Deps) : AllHealthy(n.Deps[i])

\* C34: health.Evaluate reports a node healthy if and only if the node's own
\* check (when present) returns no error and every one of its dependency nodes
\* is, recursively, healthy, whatever the dependencies' names and order.
C34_HealthyIffAllHealthy ==
    (reply.op = "health" /\ reply.body = "json") =>
        /\ reply.out.healthy <=> AllHealthy(reply.root)
        /\ (reply.status = "200") <=> AllHealthy(reply.root)

\* C35: a RotateRefresh whose new secret has the digest of an existing row
\* (the old secret itself included) fails and changes no row: the old session
\* keeps revoked_at unset and passes the checks of a rotation as before. A
\* RotateRefresh of an active session with a new secret no row has is never
\* refused by the checks or the constraint; it ends in success unless the
\* database fails.
C35_CollidingRotateFails ==
    [][\A p \in Procs :
          (procs[p].pc = "insert" /\ procs'[p].pc = "idle") =>
              LET pr == procs[p] IN
              IF RowsOfSecret(sessions, pr.new) # {}
              THEN /\ last'.op = "rotate"
                   /\ last'.res \in {"ErrConstraint", "ErrConn"}
                   /\ sessions' = sessions
                   /\ sessions'[pr.sid].revoked_at = NULL
                   /\ RotateChecks(sessions', pr.tok, pr.tnow) = "pass"
              ELSE /\ last'.res \in {"ok", "ErrConn", "ErrRefreshInvalid"}
                   /\ last'.res # "ok" => sessions' = sessions]_vars

\* a rotation has just failed on the constraint; its session is still active,
\* and a secret no row has and room for its row are there for the next call
C35_Witness ==
    /\ last.op = "rotate"
    /\ last.res = "ErrConstraint"
    /\ RotateChecks(sessions, last.tok, now) = "pass"
    /\ \A i \in RowsOfSecret(sessions, last.tok) : sessions[i].revoked_at = NULL
    /\ \E n \in Secrets : RowsOfSecret(sessions, n) = {}
    /\ Len(sessions) < MaxSessions

\* the unrevoked sessions of a user
UnrevokedOf(ss, userID) ==
    {i \in 1..Len(ss) : ss[i].user_id = userID /\ ss[i].revoked_at = NULL}

\* C36: when RevokeAll(userID) has run concurrently with a RotateRefresh of one
\* of that user's sessions (it had to wait for the rotation's row lock), then
\* at the moment both calls have returned the user has no unrevoked session:
\* the session the rotation inserted does not survive the RevokeAll.
C36_RevokeAllBeatsRotate ==
    [][(last = NoCall /\ last'.op = "revokeAll" /\ last'.res = "ok" /\ last'.waited
          /\ \A p \in Procs : procs'[p].pc = "idle") =>
        UnrevokedOf(sessions', last'.uid) = {}]_vars

\* C37: RevokeSessionByRefresh(s) and RotateRefresh(s, ...) running
\* concurrently on an active session never both succeed, and revoked_at of
\* the session is set once. A revoke that had to wait for the rotation's lock
\* returns ErrRefreshInvalid and writes nothing when the rotation committed,
\* and revokes the session itself when the rotation was rolled back; a revoke
\* that returns ok leaves a session that was never rotated and has no
\* successor. A rotation that finds the session revoked returns
\* ErrRefreshRevoked and inserts nothing. (A call the database fails returns
\* the database's error and writes nothing.)
C37_RevokeOrRotate ==
    [][/\ \A i \in 1..Len(sessions) :
              sessions[i].revoked_at # NULL =>
                  sessions'[i].revoked_at = sessions[i].revoked_at
       /\ (last = NoCall /\ last'.op = "revoke" /\ last'.waited) =>
              \A i \in RowsOfSecret(sessions, last'.tok) :
                  IF RotationsFrom(i) # {}
                  THEN /\ last'.res \in {"ErrRefreshInvalid", "ErrConn"}
                       /\ sessions' = sessions
                  ELSE sessions[i].revoked_at = NULL =>
                           \/ last'.res = "ErrConn" /\ sessions' = sessions
                           \/ last'.res = "ok" /\ sessions'[i].revoked_at # NULL
       /\ (last = NoCall /\ last'.op = "revoke" /\ last'.res = "ok") =>
              \A i \in RowsOfSecret(sessions, last'.tok) :
                  /\ RotationsFrom(i) = {}
                  /\ Successors(sessions', i) = {}
                  /\ sessions[i].revoked_at = NULL
       /\ (RotateReturns /\ last'.res = "ok") =>
              \A i \in RowsOfSecret(sessions, last'.tok) : sessions[i].revoked_at = NULL
       /\ RotateReturns =>
              \A i \in RowsOfSecret(sessions, last'.tok) :
                  sessions[i].revoked_at # NULL =>
                      /\ last'.res \in {"ErrRefreshRevoked", "ErrConn"}
                      /\ sessions' = sessions]_vars

\* a revoke that waited for a rotation of its session has just returned
\* ErrRefreshInvalid: the rotation had committed
C37_Witness ==
    /\ last.op = "revoke"
    /\ last.waited
    /\ last.res = "ErrRefreshInvalid"
    /\ \E i \in RowsOfSecret(sessions, last.tok) :
          /\ RotationsFrom(i) # {}
          /\ Successors(sessions, i) # {}

\* the token is one the signed refresh-token issuer made: its ID is "refresh"
IsSignedRefreshToken(tok) ==
    /\ tok # <<>>
    /\ tok[1] = "jwt"
    /\ tok[4].jti = "refresh"

\* C38: a token made by NewRefreshToken is not accepted as an access token:
\* Parse rejects it, and so the gateway's bearer check answers 401 and does
\* not pass the request on.
C38_RefreshTokenRejected ==
    (reply.op = "gateway" /\ IsSignedRefreshToken(BearerToken(reply.header))) =>
        /\ Parse(Service, BearerToken(reply.header), reply.at).err = "ErrInvalidToken"
        /\ (reply.path # "/healthz" /\ ~stringsHasPrefix(reply.path, "/v1/auth/")) =>
               (~reply.next /\ reply.status = "401")

\* every row that has a rotated_from was created after the row it names
LineageAcyclic(ss) ==
    \A i \in 1..Len(ss) :
        ss[i].rotated_from # NULL =>
            (ss[i].rotated_from \in 1..Len(ss) /\ ss[i].rotated_from < i)

RECURSIVE LineageRoot(_, _)

\* the session a lineage starts from, following rotated_from
LineageRoot(ss, i) ==
    IF ss[i].rotated_from = NULL THEN i ELSE LineageRoot(ss, ss[i].rotated_from)

\* the sessions of the lineage of session i
Lineage(ss, i) == {j \in 1..Len(ss) : LineageRoot(ss, j) = LineageRoot(ss, i)}

\* C39: with sessions created by logins (rotated_from unset) and changed by
\* RotateRefresh, RevokeSessionByRefresh and RevokeAll, every rotation lineage
\* is acyclic and a chain, all its sessions belong to one user, and none but
\* the most recently created of them is unrevoked.
C39_LineageInvariant ==
    /\ LineageAcyclic(sessions)
    /\ \A i \in 1..Len(sessions) :
          /\ Cardinality(Successors(sessions, i)) <= 1
          /\ \A j \in Lineage(sessions, i) :
                /\ sessions[j].user_id = sessions[i].user_id
                /\ sessions[j].revoked_at = NULL =>
                       \A k \in Lineage(sessions, i) : k <= j

\* a lineage of three sessions, the last of them unrevoked, beside no other
C39_Witness ==
    /\ Len(sessions) = 3
    /\ sessions[2].rotated_from = 1
    /\ sessions[3].rotated_from = 2
    /\ sessions[3].revoked_at = NULL
    /\ Lineage(sessions, 3) = {1, 2, 3}

====
